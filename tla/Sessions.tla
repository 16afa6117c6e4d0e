-------------------------------- MODULE Sessions --------------------------------
(***************************************************************************)
(* The functions on texts, requests and responses.  Clean-up that is the   *)
(* same on an error and at the end is named once.                          *)
(***************************************************************************)
EXTENDS Steps

(* string_type.c *)
StringDestroy == {"string", "buffer"}
StringInitialize ==
    Creates("string", {}, {"buffer"}, << Take("string", {}), Maybe("buffer", {"string"}) >>)
\* The caller's value becomes the buffer.
StringInitializeDynamic ==
    Creates("string", {}, {}, << Take("string", {}), Move("buffer", "value") >>)
StringInitializeStatic == Creates("string", {}, {"buffer"}, << Take("string", {}) >>)
\* The old buffer goes before the new one is there.
StringSet == Changes("string", {}, << Drop({"buffer"}), Maybe("buffer", {}) >>)
StringConcatenate ==
    Creates("string", {}, {},
        << Take("string", {}), Take("buffer", {"string"}), Check(StringDestroy) >>)
\* The new text is lost with the string_t it was meant for.
StringReplace ==
    Creates("string", {}, {},
        << Take("buffer", {}), Check({"buffer"}), Take("string", {}) >>)
\* A string_t without a buffer is left to the caller, with an error.
StringConvertBinaryToHex ==
    Creates("string", {}, {}, << Take("string", {}), Take("buffer", {}) >>)
StringSplit ==
    LET list == {"string_list", "parts"} IN
    Computes(list, {"parts", "current_part"},
        << Take("string_list", {}),
           Maybe("current_part", list), Check(list \cup {"current_part"}), Join("parts", "current_part"),
           Take("current_part", list), Check(list \cup {"current_part"}), Join("parts", "current_part") >>)

(* random.c *)
RandomGenerateGuid ==
    Computes({"string"}, {},
        << Take("guid_string", {}), Check({"guid_string"}), Wrap("string", "guid_string", {"guid_string"}) >>)
RandomGenerateArray == Computes({"array"}, {}, << Take("array", {}), Check({"array"}) >>)
\* The text is taken out of its string_t.
MclRandomGenerateGuid ==
    Computes({"guid"}, {}, << Take("guid_string", {}), Move("guid", "text"), Drop({"guid_string"}) >>)

(* base64.c *)
\* The string_t may be missing, and the caller is told that all is well.
EncodeWithTable ==
    Computes({"encoded_data"}, {},
        << Take("output", {}), [Try("encoded_data") EXCEPT !.gives = {"output"}] >>)
DecodeWithTable ==
    Computes({"decoded_data"}, {}, << Take("decoded_data", {}), Check({"decoded_data"}) >>)

-----------------------------------------------------------------------------
(* string_array.c: the array, its items, and the strings they lead to *)
StringArrayDestroy == {"array", "items", "strings"}
StringArrayInitialize ==
    Creates("string_array", {}, {"strings"}, << Take("array", {}), Take("items", {"array"}) >>)
\* What there is no room for stays with the caller.
StringArrayAdd ==
    [Changes("string_array", {},
        << Regrow("items", {"strings"}, {}), Join("strings", "string") >>)
     EXCEPT !.when = {"items"}]
StringArrayToString ==
    [Changes("string_array", {},
        << Take("final_buffer", {}), Wrap("final_string", "final_buffer", {"final_buffer"}), Hand({"final_string"}) >>)
     EXCEPT !.when = {"items"}]

-----------------------------------------------------------------------------
(* http_request.c *)
HeaderArray == {"header", "header_items", "headers"}
HttpRequestDestroy == {"http_request", "uri", "boundary", "payload"} \cup HeaderArray
AddHeader(undo) ==
    << Take("header_line", undo), Check(undo \cup {"header_line"}),
       Regrow("header_items", {"headers"}, undo \cup {"header_line"}), Join("headers", "header_line") >>
HttpRequestInitialize ==
    Creates("http_request", {}, HttpRequestDestroy \ {"http_request"},
        << Take("http_request", {}), Take("header", HttpRequestDestroy), Take("header_items", HttpRequestDestroy) >>
        \o AddHeader(HttpRequestDestroy)
        \o Takes(<<"payload", "uri", "boundary">>, HttpRequestDestroy))
\* The callers that see it fail destroy the request.
HttpRequestAddHeader ==
    [Changes("http_request", {}, AddHeader({})) EXCEPT !.when = {"header_items"}]

\* A larger payload buffer, if there is need and room for one.
ResizePayloadBuffer == << Check({}), Regrow("payload", {}, {}) >>
HttpRequestAddSingle ==
    Changes("http_request", {}, ResizePayloadBuffer \o << Use("payload") >> \o Checks(3, {}))
HttpRequestAddTuple ==
    Changes("http_request", {},
        ResizePayloadBuffer \o << Use("payload"), Check({}), Take("sub_boundary", {}) >>
        \o Checks(6, {"sub_boundary"}) \o << Drop({"sub_boundary"}) >>)
HttpRequestStartTuple ==
    Changes("http_request", {}, ResizePayloadBuffer \o << Use("payload"), Check({}) >>)
HttpRequestAddRawData == Changes("http_request", {}, ResizePayloadBuffer \o << Use("payload") >>)
\* The boundary of a tuple's parts belongs to the stream that writes them.
HttpRequestStartTupleSubSection ==
    Changes("http_request", {},
        ResizePayloadBuffer \o << Maybe("tuple_subboundary", {}), Hand({"tuple_subboundary"}), Use("payload") >>
        \o Checks(3, {}))
HttpRequestEndTupleSubSection == HttpRequestStartTuple
HttpRequestFinalize == HttpRequestAddRawData
GenerateRandomBoundary == Computes({"boundary"}, {}, << Take("boundary", {}), Check({"boundary"}) >>)

-----------------------------------------------------------------------------
(* http_client_libcurl.c, http_response.c *)
HttpResponseDestroy == {"http_response", "response_header", "header_items", "headers", "data"}
\* A header line libcurl has no memory for takes those before it along.
SetRequestOptions == << Extend("request_header_list", {}), Extend("request_header_list", {"request_header_list"}) >>
\* What libcurl calls back with: lines of the header, and pieces of the payload.
ResponseHeaderCallback(undo) ==
    << Take("header_line", undo), Regrow("header_items", {"headers"}, undo \cup {"header_line"}),
       Join("headers", "header_line") >>
ResponsePayloadCallback(undo) == << Maybe("data", undo), Regrow("data", {}, undo) >>
HttpClientSend ==
    LET received == HttpResponseDestroy \ {"http_response"}
        undo     == received \cup {"response_payload"}
        sending  == undo \cup {"request_header_list"} IN
    Creates("http_response", {}, {"headers", "header_line", "data", "request_header_list"},
        SetRequestOptions
        \o << Take("response_header", {"request_header_list"}),
              Take("header_items", {"response_header", "request_header_list"}),
              Try("response_payload"), Use("response_payload"), Check(sending) >>
        \o ResponseHeaderCallback(sending) \o ResponseHeaderCallback(sending) \o ResponsePayloadCallback(sending)
        \o << Drop({"request_header_list"}), Take("http_response", undo), Drop({"response_payload"}) >>)
HttpResponseGetHeader ==
    Changes("http_response", {},
        << Check({}), Take("tokens", {}), Check({"tokens"}), Take("header_value", {"tokens"}),
           Drop({"tokens"}), Hand({"header_value"}) >>)

=============================================================================
