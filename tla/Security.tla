-------------------------------- MODULE Security --------------------------------
(***************************************************************************)
(* The functions on keys and tokens, the credential files, and the         *)
(* communication object with its configuration, http processor, http       *)
(* client and security handler, whose fields all count as its own.         *)
(***************************************************************************)
EXTENDS Steps

(* hmac.c, security_libcrypto.c *)
HmacSha256 ==
    LET keys == {"key_ipad", "key_opad"} IN
    Computes({"hash"}, {"key_resized", "sha_output"},
        << Maybe("key_resized", {}), Check({"key_resized"}),
           Take("key_ipad", {"key_resized"}), Take("key_opad", {"key_ipad", "key_resized"}), Drop({"key_resized"}),
           Take("sha_output", keys), Check(keys \cup {"sha_output"}),
           Take("hash", keys \cup {"sha_output"}), Drop(keys \cup {"sha_output"}), Check({"hash"}) >>)
SecurityHashSha256 == Computes({"hash"}, {}, << Take("hash", {}) >>)
SecurityRsaSign ==
    LET keys == {"rsa", "bio"} IN
    Computes({"signature"}, {"hash"},
        << Take("bio", {}), Take("rsa", {"bio"}), Take("signature", keys),
           Take("hash", keys \cup {"signature"}), Check(keys \cup {"signature", "hash"}), Drop(keys \cup {"hash"}) >>)
GetRsaKey(key, undo) == << Take("bio", undo), Check(undo \cup {"bio"}), Take(key, undo \cup {"bio"}), Drop({"bio"}) >>
\* On an error it is not the keys that are freed but the places where they are kept.
SecurityGenerateRsaKey(undo) ==
    LET failing == undo \cup {"rsa", "address_of_key"} IN
    << Take("rsa", undo), Take("exponent", undo \cup {"rsa"}), Drop({"exponent"}), Check(failing) >>
    \o GetRsaKey("private_key", failing) \o GetRsaKey("public_key", failing) \o << Drop({"rsa"}) >>
SecurityRsaGetModulusAndExponent ==
    Computes({"modulus", "exponent"}, {"modulus", "exponent"},
        << Take("bio", {}), Take("rsa", {"bio"}), Take("modulus", {"rsa", "bio"}),
           Take("exponent", {"modulus", "rsa", "bio"}), Drop({"rsa", "bio"}) >>)
\* base64_url_encode may say MCL_OK and leave its result NULL, as EncodeWithTable does.
Base64UrlEncode(p, undo) == << Check(undo), Try(p) >>
Base64EncodeBigNumber ==
    Computes({"encoded"}, {"binary_encoded"},
        << Take("binary", {}) >> \o Base64UrlEncode("binary_encoded", {"binary"})
        \o << Use("binary_encoded"), Move("encoded", "binary_encoded"), Drop({"binary"}) >>)

-----------------------------------------------------------------------------
(* jwt.c *)
JwtDestroy == {"jwt", "header", "payload"}
JwtInitialize ==
    Creates("jwt", {}, {"header", "payload"},
        << Take("jwt", {}), Take("header", JwtDestroy), Take("payload", JwtDestroy) >>)
CreateSelfIssuedJwtHeader == Computes({"header"}, {}, << Take("header", {}) >> \o Checks(2, {"header"}))
CreateSelfIssuedJwtPayload ==
    Computes({"payload"}, {},
        << Take("jti", {}), Take("payload", {"jti"}) >> \o Checks(9, {"payload", "jti"}) \o << Drop({"jti"}) >>)
AddSchemaToJwt == Computes({}, {}, << Take("schemas_array", {}), Check({"schemas_array"}), Drop({"schemas_array"}) >>)
JwtGetToken ==
    Changes("jwt", {"header_local", "payload_local", "header_json", "payload_json"},
        << Take("header_json", {}), Wrap("header_local", "header_json", {}), Take("payload_json", {"header_local"}),
           Wrap("payload_local", "payload_json", {"header_local"}), Take("token", {"header_local", "payload_local"}),
           Drop({"header_local", "payload_local"}), Hand({"token"}) >>)
GenerateToken ==
    Computes({"token"}, {},
        << Take("header_encoded", {}), Take("payload_encoded", {"header_encoded"}),
           Turn({"header_encoded", "payload_encoded"}, "header_and_payload", {}),
           Take("signature", {"header_and_payload"}), Turn({"header_and_payload", "signature"}, "token", {}) >>)
GetHeaderAndPayloadEncoded ==
    Computes({"header_encoded", "payload_encoded"}, {},
        Base64UrlEncode("header_encoded", {}) \o Base64UrlEncode("payload_encoded", {"header_encoded"}))
\* Both texts are freed, and each of them is followed before.
JoinWithDot ==
    LET both == {"string_a", "string_b"} IN
    Computes({"joined"}, both \cup {"joined"},
        << Perhaps("string_a"), Perhaps("string_b"), Take("string_array", both), Use("string_a"), Use("string_b"),
           Take("joined", both \cup {"string_array"}), Drop(both \cup {"string_array"}) >>)
CalculateSignature ==
    Computes({"signature"}, {},
        << Take("hash", {}) >> \o Base64UrlEncode("signature", {"hash"}) \o << Drop({"hash"}) >>)

-----------------------------------------------------------------------------
(* storage.c *)
SharedSecretFields == <<"client_id", "client_secret", "registration_access_token", "registration_client_uri">>
RsaFields == <<"client_id", "registration_access_token", "registration_client_uri">>
Secrets == All(SharedSecretFields)
RsaSecrets == All(RsaFields) \cup {"public_key", "private_key"}
File(fields) == fields \cup {"file_descriptor", "buffer"}
Line(field, fields) == << Check(File(fields)), Take(field, File(fields)) >>
LoadFrom(undo) == << Take("buffer", undo), Take("file_descriptor", undo \cup {"buffer"}) >>
StorageLoadSharedSecret(undo) ==
    LET all == Secrets \cup undo IN
    LoadFrom(undo) \o Line("client_id", all) \o Line("client_secret", all)
    \o Line("registration_access_token", all) \o Line("registration_client_uri", all)
    \o << Drop({"file_descriptor", "buffer"}) >>
StorageLoadRsa(undo) ==
    LET all == RsaSecrets \cup undo IN
    LoadFrom(undo) \o Line("client_id", all) \o Line("public_key", all) \o Line("private_key", all)
    \o Line("registration_access_token", all) \o Line("registration_client_uri", all)
    \o << Drop({"file_descriptor", "buffer"}) >>
StorageSave ==
    Computes({}, {"file_descriptor"},
        << Take("file_descriptor", {}) >> \o Checks(8, {"file_descriptor"}) \o << Drop({"file_descriptor"}) >>)

-----------------------------------------------------------------------------
(* communication.c, http_processor.c, http_client_libcurl.c, security_handler.c *)
SecurityHandlerDestroy == Secrets \cup {"security_handler", "access_token", "last_token_time", "private_key", "public_key"}
Endpoints == {"access_token_endpoint", "exchange_endpoint", "registration_endpoint"}
HttpProcessorDestroy == {"http_processor", "http_client", "curl"} \cup SecurityHandlerDestroy \cup Endpoints
\* Two of the texts a configuration may leave out stand for all of them: one that
\* is copied before the user agent, and one after it.
ConfigurationTexts == {"mindsphere_hostname", "proxy_hostname", "user_agent", "tenant", "store_path"}
CommunicationDestroy == {"communication"} \cup ConfigurationTexts \cup HttpProcessorDestroy
NotYetSet == CommunicationDestroy \ {"communication"}

\* Only the caller frees an http_client that has no curl handle.
HttpClientInitialize(undo) ==
    << Take("http_client", undo), Take("curl", undo),
       Maybe("proxy_username_local", undo), Check(undo \cup {"proxy_username_local"}), Drop({"proxy_username_local"}) >>
SecurityHandlerInitialize(undo) == << Take("security_handler", undo) >>
HttpProcessorInitialize(credentials, undo) ==
    << Take("http_processor", undo) >> \o HttpClientInitialize(undo) \o SecurityHandlerInitialize(undo) \o credentials
    \o Takes(<<"registration_endpoint", "exchange_endpoint", "access_token_endpoint">>, undo)
\* There is one for each security profile; credentials: what the http processor
\* does about them.
CommunicationInitialize(profile, credentials) ==
    Creates(profile, {}, NotYetSet \cup {"proxy_username_local"},
        << Check({}), Take("communication", {}), Take("mindsphere_hostname", CommunicationDestroy),
           Maybe("proxy_hostname", CommunicationDestroy), Take("user_agent", {}), Check(CommunicationDestroy),
           Take("tenant", CommunicationDestroy), Maybe("store_path", CommunicationDestroy) >>
        \o HttpProcessorInitialize(credentials, CommunicationDestroy))
\* A load that was given up in the middle, or never begun.
NothingLoaded == << Perhaps("client_id"), Drop({"client_id"}) >>
GenerateRsaKey == NothingLoaded \o SecurityGenerateRsaKey(CommunicationDestroy)
\* The texts a callback of the application delivers are kept without a look
\* whether there was a string_t for them.
FromCallback(texts, undo) == << [Check(undo) EXCEPT !.takes = texts] >>
Keep(field, copy) == [Try(field) EXCEPT !.gives = {copy}]
KeepRegistration ==
    << Keep("client_id", "id_text"), Keep("registration_access_token", "token_text"),
       Keep("registration_client_uri", "uri_text") >>
CustomLoadSharedSecret ==
    FromCallback({"id_text", "secret_text", "token_text", "uri_text"}, CommunicationDestroy)
    \o << Keep("client_secret", "secret_text") >> \o KeepRegistration
CustomLoadRsa ==
    FromCallback({"id_text", "public_key", "private_key", "token_text", "uri_text"}, CommunicationDestroy)
    \o KeepRegistration

\* The agent's own copy of a text of the security handler.
GetLast(profile, original) ==
    [Changes(profile, {}, << Take("token", {}), Check({"token"}), Hand({"token"}) >>) EXCEPT !.when = {original}]

-----------------------------------------------------------------------------
(* http_processor.c: onboarding and key rotation *)
ConcatenateHostAndEndpoint == Computes({"uri"}, {}, << Take("uri", {}), Check({"uri"}) >>)
GenerateCorrelationIdString ==
    Computes({"correlation_id"}, {}, << Check({}), Take("correlation_id", {}), Check({"correlation_id"}) >>)
Json == {"root", "jwks", "keys", "key_1", "modulus", "public_exponent"}
ComposeRsaJson ==
    FromCallback({"modulus", "public_exponent"}, {})
    \o << Take("root", {"modulus", "public_exponent"}), Take("jwks", Json), Take("keys", Json), Take("key_1", Json) >>
    \o Checks(4, Json) \o << Take("payload_string", Json), Wrap("payload", "payload_string", Json \cup {"payload_string"}), Drop(Json) >>
ComposeRsaOnboardingJson == Computes({"payload"}, Json \cup {"payload_string"}, ComposeRsaJson)
\* The old keys go before there are new ones.
ComposeRsaKeyRotationJson ==
    Changes("rsa_3072", Json \cup {"payload_string"},
        << Drop({"public_key", "private_key"}) >> \o SecurityGenerateRsaKey({}) \o ComposeRsaJson \o << Hand({"payload"}) >>)
AddKeyToKeysArray == Computes({"json_object"}, {}, << Take("json_object", {}), Move("keys", "json_object"), Hand({"keys"}) >>)

\* The old credentials go before the new ones are there.
ProcessRegistrationResponse(fields, undo) ==
    LET json == undo \cup {"json_root", "json_items"} IN
    << Take("json_root", undo), Take("json_items", json), Drop(All(fields)) >>
    \o Takes(fields, json \cup All(fields)) \o << Drop({"json_root", "json_items"}) >>
\* Onboarding and rotation, with the fields an answer brings; rotating: what the
\* composition of the request does to the keys.
HttpProcessorRegister(profile, rotating, fields) ==
    LET all == {"correlation_id", "register_payload", "bearer", "http_request", "http_response"} IN
    Changes(profile, all,
        rotating
        \o << Take("register_payload", {}), Take("bearer", {"register_payload"}), Take("http_request", all) >>
        \o Checks(3, all) \o << Take("correlation_id", all), Check(all), Take("http_response", all), Check(all) >>
        \o ProcessRegistrationResponse(fields, all) \o << Check(all), Drop(all) >>)
Onboards(profile, fields) ==
    [HttpProcessorRegister(profile, << >>, fields) EXCEPT !.unless = {"registration_access_token"}]
Rotates(profile, rotating, fields) ==
    [HttpProcessorRegister(profile, rotating, fields) EXCEPT !.when = {"registration_access_token"}]
NewKeys == << Drop({"public_key", "private_key"}) >> \o SecurityGenerateRsaKey({})

-----------------------------------------------------------------------------
(* http_processor.c: the credentials another process has written *)
Replaced == << Drop({"registration_access_token", "client_secret", "public_key", "private_key"}),
               Move("registration_access_token", "token_string") >>
UpdateFromCallbacksSharedSecret ==
    Changes("shared_secret", {},
        FromCallback({"uri_text", "id_text", "token_text", "secret_text"}, {})
        \o << Drop({"uri_text", "id_text"}), Check({"token_text", "secret_text"}),
              Wrap("token_string", "token_text", {"token_text", "secret_text"}),
              Wrap("secret_string", "secret_text", {"token_string", "secret_text"}) >>
        \o Replaced \o << Move("client_secret", "secret_string") >>)
UpdateFromCallbacksRsa ==
    LET keys == {"public_text", "private_text"} IN
    Changes("rsa_3072", {},
        FromCallback({"uri_text", "id_text", "token_text"} \cup keys, {})
        \o << Drop({"uri_text", "id_text"}), Check({"token_text"} \cup keys),
              Wrap("token_string", "token_text", {"token_text"} \cup keys) >>
        \o Replaced \o << Move("public_key", "public_text"), Move("private_key", "private_text") >>)
\* The strings are followed before it is known that there are any.
FromFile(strings) == << [Check({}) EXCEPT !.takes = strings, !.goes_on = TRUE] >>
UpdateFromFileSharedSecret ==
    Changes("shared_secret", {},
        FromFile({"uri_string", "id_string", "token_string", "secret_string"})
        \o << Use("secret_string"), Use("id_string"), Use("token_string"),
              Drop({"uri_string", "id_string"}), Check({"token_string", "secret_string"}) >>
        \o Replaced \o << Move("client_secret", "secret_string") >>)
UpdateFromFileRsa ==
    LET keys == {"public_text", "private_text"} IN
    Changes("rsa_3072", {},
        FromFile({"uri_string", "id_string", "token_string"} \cup keys)
        \o << Use("id_string"), Use("token_string"),
              Drop({"uri_string", "id_string"}), Check({"token_string"} \cup keys) >>
        \o Replaced \o << Move("public_key", "public_text"), Move("private_key", "private_text") >>)

-----------------------------------------------------------------------------
(* http_processor.c: access tokens and downloads *)
ComposeAccessTokenRequestPayload ==
    LET both == {"request_payload_head", "jwt_string"} IN
    Computes({"request_payload"}, {},
        << Take("jwt", {}), Turn({"jwt"}, "jwt_string", {}), Take("request_payload_head", {"jwt_string"}),
           Take("request_payload", both), Drop(both) >>)
\* The old access token goes whatever happens.
HttpProcessorGetAccessToken(profile) ==
    LET asking   == {"request_payload", "request", "correlation_id", "access_token"}
        answered == {"correlation_id", "response", "access_token"} IN
    [Changes(profile, asking \ {"access_token"},
        << Take("request_payload", asking), Take("request", asking), Check(asking),
           Take("correlation_id", asking), Check(asking), Drop({"request_payload"}),
           Turn({"request"}, "response", answered),
           [Perhaps("last_token_time") EXCEPT !.frees = {"last_token_time"}],
           Check(answered), Drop({"correlation_id"}),
           Turn({"response"}, "response_payload", {"access_token"}),
           Take("access_token_item", {"response_payload", "access_token"}), Drop({"access_token"}),
           Take("access_token", {"access_token_item", "response_payload"}),
           Drop({"access_token_item", "response_payload"}) >>)
     EXCEPT !.when = {"registration_access_token"}]
AddAuthenticationHeader ==
    Computes({}, {},
        << Take("bearer", {}), Turn({"bearer"}, "jwt_string", {}), Check({"jwt_string"}), Drop({"jwt_string"}) >>)
\* A file object comes with an empty name, which the name in the answer replaces.
HttpProcessorDownload ==
    LET answer == {"response", "content_disposition_header"} IN
    Computes({}, {},
        << Take("uri_temp", {}), Turn({"uri_temp"}, "uri", {}), Turn({"uri"}, "request", {}), Check({"request"}),
           Take("accept_header", {"request"}), Check({"request", "accept_header"}), Drop({"accept_header"}), Check({"request"}),
           Take("correlation_id", {"request"}), Check({"request", "correlation_id"}),
           Turn({"request"}, "response", {"correlation_id"}), Check({"correlation_id", "response"}), Drop({"correlation_id"}),
           Take("content_disposition_header", {"response"}), Take("file", answer), Move("file_name", "empty_name"),
           Take("file_name", answer \cup {"file", "file_name"}), Drop({"content_disposition_header"}),
           Hand({"file", "file_name"}), Check({}), Drop({"response"}) >>)
GetFileName ==
    Computes({"file_name"}, {},
        << Check({}), Take("file_name_local", {}), [Try("file_name") EXCEPT !.gives = {"file_name_local"}] >>)
AddRangeHeader ==
    Computes({}, {}, << Check({}), Take("range_header_value", {}), Check({"range_header_value"}), Drop({"range_header_value"}) >>)
AddActualRangeToFile ==
    Computes({}, {}, << Take("content_range_header", {}), Check({"content_range_header"}), Drop({"content_range_header"}), Check({}) >>)
CommunicationDownload ==
    Computes({"file"}, {}, << Take("file_id_string", {}), Turn({"file_id_string"}, "file", {}) >>)

=============================================================================
