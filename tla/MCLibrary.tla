------------------------------- MODULE MCLibrary -------------------------------
(***************************************************************************)
(* The functions of the library, by their names in the C code, as one      *)
(* table for module Ownership.  What stands behind a name tells a function *)
(* on one kind of object, or configured in one way, from the others.       *)
(* A behaviour is one of Ownership, of List or of Base64, which have       *)
(* nothing to do with each other: part says which.                         *)
(***************************************************************************)
EXTENDS Outlines, List, Base64, DataObjects, Documents, Sessions, Security, TLC

-----------------------------------------------------------------------------
(* The objects: the fields freed with each, and the objects in it.         *)

Fields == [
    store |-> StoreDestroy,
    time_series |-> TimeSeriesDestroy \cup StoreDataDestroy,
    value_set |-> ValueSetDestroy,
    value |-> ValueDestroy,
    event_list |-> EventListDestroy \cup StoreDataDestroy,
    event |-> EventDestroy,
    custom_data |-> CustomDataDestroy \cup StoreDataDestroy,
    file |-> FileDestroy \cup StoreDataDestroy,
    data_source_configuration |-> ConfigurationDestroy \cup StoreDataDestroy,
    data_source |-> DataSourceDestroy,
    data_point |-> DataPointDestroy,
    json |-> {"root", "root_handle", "children"},
    string |-> StringDestroy,
    string_array |-> StringArrayDestroy,
    http_request |-> HttpRequestDestroy,
    http_response |-> HttpResponseDestroy,
    jwt |-> JwtDestroy,
    shared_secret |-> CommunicationDestroy,
    rsa_3072 |-> CommunicationDestroy,
    result |-> {}]

Holds == [
    value_set |-> {"value"},
    time_series |-> {"value_set", "value"},
    event_list |-> {"event"},
    data_source |-> {"data_point"},
    data_source_configuration |-> {"data_source", "data_point"},
    store |-> {"time_series", "value_set", "value", "event_list", "event", "custom_data", "file",
               "data_source_configuration", "data_source", "data_point"}]
Objects == DOMAIN Fields
Inside == [k \in Objects |-> {k} \cup IF k \in DOMAIN Holds THEN Holds[k] ELSE {}]
Apart == Objects \ {"value_set", "value", "event", "data_source", "data_point"}
MCFreed == Fields
MCWithin == Inside
MCRemovable == Apart
MCHalves == {"mcl_store_new_event"}

-----------------------------------------------------------------------------
(* The functions.                                                          *)

LibraryFunctions == [
    mcl_store_initialize |-> StoreInitialize,
    mcl_store_new_time_series |-> StoreNewTimeSeries,
    mcl_time_series_new_value_set |-> TimeSeriesNewValueSet,
    mcl_time_series_add_value |-> TimeSeriesAddValue,
    mcl_store_new_event_list |-> StoreNewEventList,
    mcl_store_new_event |-> StoreNewEvent,
    mcl_event_set_option_correlation_id |-> EventSetOption("correlation_id"),
    mcl_event_set_option_details |-> EventSetOption("details"),
    mcl_store_new_custom_data |-> StoreNewCustomData,
    mcl_custom_data_set_meta_details |-> CustomDataSetMetaDetails,
    mcl_store_new_file |-> StoreNewFile,
    mcl_store_new_data_source_configuration |-> StoreNewConfiguration,
    mcl_data_source_configuration_get_id |-> ConfigurationGetId,
    mcl_data_source_configuration_add_data_source |-> ConfigurationAddDataSource,
    mcl_data_source_configuration_add_data_point |-> ConfigurationAddDataPoint,
    _exchange_prepare_data_time_series |-> PrepareComposed("time_series"),
    _exchange_prepare_data_event_list |-> PrepareComposed("event_list"),
    _exchange_prepare_data_data_source_configuration |-> PrepareComposed("data_source_configuration"),
    _exchange_prepare_data_file |-> PrepareGiven("file"),
    _exchange_prepare_data_custom_data |-> PrepareGiven("custom_data"),
    json_util_initialize |-> JsonUtilInitialize,
    json_util_get_array_item |-> JsonUtilGetArrayItem,
    json_util_duplicate |-> JsonUtilDuplicate,
    json_util_parse |-> JsonUtilParse,
    json_util_add_string |-> JsonUtilAddString,
    json_util_add_uint |-> JsonUtilAddUint,
    json_util_add_double |-> JsonUtilAddDouble,
    json_util_add_bool |-> JsonUtilAddBool,
    json_util_add_null |-> JsonUtilAddNull,
    json_util_add_object |-> JsonUtilAddObject,
    mcl_json_util_add_object |-> MclJsonUtilAddObject,
    json_util_start_object |-> JsonUtilStartObject,
    json_util_start_array |-> JsonUtilStartArray,
    json_util_get_object_item |-> JsonUtilGetObjectItem,
    mcl_json_util_get_string |-> MclJsonUtilGetString,
    json_from_item_meta |-> JsonFromItemMeta,
    json_from_time_series_payload |-> JsonFromTimeSeriesPayload,
    json_from_data_source_configuration_payload |-> JsonFromDataSourceConfigurationPayload,
    json_from_event_payload |-> JsonFromEventPayload,
    _add_time_series_value_set |-> AddTimeSeriesValueSet,
    _add_time_series_payload_values_array |-> AddTimeSeriesPayloadValuesArray,
    _add_time_series_payload_values_objects |-> AddTimeSeriesPayloadValuesObjects,
    _add_item_meta_details |-> AddItemMetaDetails,
    _add_item_meta_payload |-> AddItemMetaPayload,
    _add_item_meta_payload_details |-> AddItemMetaPayloadDetails,
    _add_event |-> AddEvent,
    _add_data_source_configuration_data_sources |-> AddDataSources,
    _add_data_source_configuration_data_points |-> AddDataPoints,
    string_initialize |-> StringInitialize,
    string_initialize_dynamic |-> StringInitializeDynamic,
    string_initialize_static |-> StringInitializeStatic,
    string_set |-> StringSet,
    string_concatenate |-> StringConcatenate,
    string_replace |-> StringReplace,
    string_convert_binary_to_hex |-> StringConvertBinaryToHex,
    string_split |-> StringSplit,
    random_generate_guid |-> RandomGenerateGuid,
    random_generate_array |-> RandomGenerateArray,
    mcl_random_generate_guid |-> MclRandomGenerateGuid,
    _encode_with_table |-> EncodeWithTable,
    _decode_with_table |-> DecodeWithTable,
    string_array_initialize |-> StringArrayInitialize,
    string_array_add |-> StringArrayAdd,
    string_array_to_string |-> StringArrayToString,
    http_request_initialize |-> HttpRequestInitialize,
    http_request_add_header |-> HttpRequestAddHeader,
    http_request_add_single |-> HttpRequestAddSingle,
    http_request_add_tuple |-> HttpRequestAddTuple,
    http_request_start_tuple |-> HttpRequestStartTuple,
    http_request_add_raw_data |-> HttpRequestAddRawData,
    http_request_start_tuple_sub_section |-> HttpRequestStartTupleSubSection,
    http_request_end_tuple_sub_section |-> HttpRequestEndTupleSubSection,
    http_request_finalize |-> HttpRequestFinalize,
    _generate_random_boundary |-> GenerateRandomBoundary,
    http_client_send |-> HttpClientSend,
    http_response_get_header |-> HttpResponseGetHeader,
    hmac_sha256 |-> HmacSha256,
    security_hash_sha256 |-> SecurityHashSha256,
    security_rsa_sign |-> SecurityRsaSign,
    security_rsa_get_modulus_and_exponent |-> SecurityRsaGetModulusAndExponent,
    _base64_encode_big_number |-> Base64EncodeBigNumber,
    jwt_initialize |-> JwtInitialize,
    _create_self_issued_jwt_header |-> CreateSelfIssuedJwtHeader,
    _create_self_issued_jwt_payload |-> CreateSelfIssuedJwtPayload,
    _add_schema_to_jwt |-> AddSchemaToJwt,
    jwt_get_token |-> JwtGetToken,
    _generate_token |-> GenerateToken,
    _get_header_and_payload_encoded_base64_url |-> GetHeaderAndPayloadEncoded,
    _join_with_dot |-> JoinWithDot,
    _calculate_signature |-> CalculateSignature,
    storage_save |-> StorageSave,
    mcl_communication_initialize_new_shared_secret |-> CommunicationInitialize("shared_secret", NothingLoaded),
    mcl_communication_initialize_new_rsa |-> CommunicationInitialize("rsa_3072", GenerateRsaKey),
    mcl_communication_initialize_stored_shared_secret |->
        CommunicationInitialize("shared_secret", StorageLoadSharedSecret(CommunicationDestroy)),
    mcl_communication_initialize_stored_rsa |->
        CommunicationInitialize("rsa_3072", StorageLoadRsa(CommunicationDestroy)),
    mcl_communication_initialize_custom_shared_secret |->
        CommunicationInitialize("shared_secret", CustomLoadSharedSecret),
    mcl_communication_initialize_custom_rsa |-> CommunicationInitialize("rsa_3072", CustomLoadRsa),
    http_processor_register_shared_secret |-> Onboards("shared_secret", SharedSecretFields),
    http_processor_register_rsa |-> Onboards("rsa_3072", RsaFields),
    http_processor_register_rotating_shared_secret |-> Rotates("shared_secret", << >>, SharedSecretFields),
    http_processor_register_rotating_rsa |-> Rotates("rsa_3072", NewKeys, RsaFields),
    _compose_rsa_key_rotation_json |-> ComposeRsaKeyRotationJson,
    update_security_information_callbacks_shared_secret |-> UpdateFromCallbacksSharedSecret,
    update_security_information_callbacks_rsa |-> UpdateFromCallbacksRsa,
    update_security_information_file_shared_secret |-> UpdateFromFileSharedSecret,
    update_security_information_file_rsa |-> UpdateFromFileRsa,
    http_processor_get_access_token_shared_secret |-> HttpProcessorGetAccessToken("shared_secret"),
    http_processor_get_access_token_rsa |-> HttpProcessorGetAccessToken("rsa_3072"),
    mcl_communication_get_last_access_token |-> GetLast("shared_secret", "access_token"),
    mcl_communication_get_last_token_time |-> GetLast("shared_secret", "last_token_time"),
    _concatenate_host_and_endpoint |-> ConcatenateHostAndEndpoint,
    _generate_correlation_id_string |-> GenerateCorrelationIdString,
    _compose_rsa_onboarding_json |-> ComposeRsaOnboardingJson,
    _add_key_to_keys_array |-> AddKeyToKeysArray,
    _compose_access_token_request_payload |-> ComposeAccessTokenRequestPayload,
    _add_authentication_header_to_request |-> AddAuthenticationHeader,
    http_processor_download |-> HttpProcessorDownload,
    _get_file_name |-> GetFileName,
    _add_range_header |-> AddRangeHeader,
    _add_actual_range_to_file |-> AddActualRangeToFile,
    mcl_communication_download |-> CommunicationDownload]
MCTable == LibraryFunctions

-----------------------------------------------------------------------------
(* What goes wrong, and where.                                             *)

At(mistake, functions, pointers_) == {mistake} \X functions \X pointers_

\* Fields are freed that were never written, as the objects come from malloc.
GarbageFreed ==
    At("garbage freed", {"mcl_store_initialize"}, {"low_priority_list"})
    \cup At("garbage freed", {"mcl_time_series_new_value_set"}, {"values"})
    \cup At("garbage freed", {"mcl_time_series_add_value"}, {"value_text", "quality_code"})
    \* &public_key and &private_key are freed instead of the keys (security_libcrypto.c:166)
    \cup At("garbage freed", {"mcl_communication_initialize_new_rsa", "http_processor_register_rotating_rsa",
                               "_compose_rsa_key_rotation_json"}, {"address_of_key"})

HttpRequestParts ==
    {"http_request_add_single", "http_request_add_tuple", "http_request_start_tuple",
     "http_request_start_tuple_sub_section", "http_request_end_tuple_sub_section",
     "http_request_add_raw_data", "http_request_finalize"}
NullUsed ==
    At("null used", HttpRequestParts, {"payload"})
    \cup At("null used", {"http_client_send"}, {"response_payload"})
    \cup At("null used", {"_add_data_source_configuration_data_sources"}, {"data_sources_object"})
    \cup At("null used", {"_add_data_source_configuration_data_points"}, {"data_points_object"})
    \cup At("null used", {"_join_with_dot"}, {"string_a", "string_b"})
    \cup At("null used", {"_base64_encode_big_number"}, {"binary_encoded"})
    \cup At("null used", {"update_security_information_file_shared_secret"}, {"secret_string"})
    \cup At("null used", {"update_security_information_file_rsa"}, {"id_string"})

CustomLoads == {"mcl_communication_initialize_custom_shared_secret", "mcl_communication_initialize_custom_rsa"}
Initializes == CustomLoads \cup
    {"mcl_communication_initialize_new_shared_secret", "mcl_communication_initialize_stored_shared_secret",
     "mcl_communication_initialize_new_rsa", "mcl_communication_initialize_stored_rsa"}
Leaked ==
    At("leaked", {"json_from_item_meta", "json_from_time_series_payload", "json_from_event_payload",
                  "json_from_data_source_configuration_payload"}, {"json_string_local"})
    \cup At("leaked", {"mcl_custom_data_set_meta_details"}, {"details_json"})
    \cup At("leaked", {"string_replace"}, {"buffer"})
    \cup At("leaked", {"string_convert_binary_to_hex"}, {"string"})
    \cup At("leaked", {"string_array_add"}, {"strings"})
    \cup At("leaked", {"http_request_add_header", "http_client_send"}, {"headers"})
    \cup At("leaked", {"http_client_send"}, {"request_header_list"})
    \cup At("leaked", {"_encode_with_table"}, {"output"})
    \cup At("leaked", {"jwt_get_token"}, {"header_json", "payload_json"})
    \* without a user agent the object is given up as it is (communication.c:188)
    \cup At("leaked", Initializes, {"communication", "mindsphere_hostname", "proxy_hostname"})
    \cup At("leaked", CustomLoads, {"id_text", "token_text", "uri_text"})
    \cup At("leaked", {"mcl_communication_initialize_custom_shared_secret"}, {"secret_text"})
    \cup At("leaked", {"http_processor_download"}, {"file_name", "response"})
    \cup At("leaked", {"_get_file_name"}, {"file_name_local"})

LeftOut ==
    At("left out", {"json_util_add_string", "json_util_add_uint", "json_util_add_double", "json_util_add_bool",
                    "json_util_add_null", "mcl_json_util_add_object"}, {"children"})
    \cup At("left out", {"_add_item_meta_payload_details"}, {"details"})
    \cup At("left out", {"_add_data_source_configuration_data_sources"}, {"data_sources_object"})
    \cup At("left out", {"_add_data_source_configuration_data_points"}, {"data_points_object"})
    \cup At("left out", {"_encode_with_table"}, {"encoded_data"})
    \cup At("left out", {"_get_header_and_payload_encoded_base64_url"}, {"header_encoded", "payload_encoded"})
    \cup At("left out", {"_calculate_signature"}, {"signature"})
    \cup At("left out", {"http_client_send"}, {"request_header_list"})
    \cup At("left out", CustomLoads, All(RsaFields))
    \cup At("left out", {"mcl_communication_initialize_custom_shared_secret"}, {"client_secret"})
    \cup At("left out", {"_get_file_name"}, {"file_name"})

\* An object that an error leaves changed.
Registering == {"http_processor_register_shared_secret", "http_processor_register_rotating_shared_secret",
                "http_processor_register_rsa", "http_processor_register_rotating_rsa"}
Changed ==
    At("changed", {"mcl_store_new_event"}, {"event_list"})
    \cup At("changed", {"mcl_event_set_option_correlation_id"}, {"correlation_id"})
    \cup At("changed", {"mcl_event_set_option_details"}, {"details"})
    \cup At("changed", {"mcl_custom_data_set_meta_details"}, {"details_json"})
    \cup At("changed", {"string_set"}, {"buffer"})
    \cup At("changed", {"string_array_add"}, {"items", "strings"})
    \cup At("changed", {"http_request_add_header"}, {"header_items", "headers"})
    \cup At("changed", HttpRequestParts, {"payload"})
    \* the credentials of a registration that could not be saved, or of none
    \cup At("changed", Registering, All(RsaFields))
    \cup At("changed", {"http_processor_register_shared_secret", "http_processor_register_rotating_shared_secret"},
            {"client_secret"})
    \cup At("changed", {"_compose_rsa_key_rotation_json", "http_processor_register_rotating_rsa"},
            {"private_key", "public_key"})
    \cup At("changed", {"http_processor_get_access_token_shared_secret", "http_processor_get_access_token_rsa"},
            {"access_token", "last_token_time"})

KnownMistakes == GarbageFreed \cup NullUsed \cup Leaked \cup LeftOut \cup Changed
MCExceptions == KnownMistakes

-----------------------------------------------------------------------------
(* The outlines.                                                           *)

MaybeNull == [
    time_series |-> {"routing"} \cup Unprepared,
    event_list |-> Unprepared,
    event |-> {"correlation_id", "details", "description"},
    custom_data |-> {"routing", "details_json"} \cup Unprepared,
    file |-> {"routing", "file_type"} \cup Unprepared,
    data_source_configuration |-> Unprepared,
    data_source |-> {"description", "custom_json"},
    data_point |-> {"description", "custom_json"},
    json |-> {"children"},
    string |-> {"buffer"},
    string_array |-> {"items", "strings"},
    http_request |-> {"header_items", "headers", "payload"},
    http_response |-> {"header_items", "headers", "data"},
    shared_secret |-> Secrets \cup {"access_token", "last_token_time", "private_key", "public_key",
                                    "proxy_hostname", "store_path"},
    rsa_3072 |-> Secrets \cup {"access_token", "last_token_time", "private_key", "public_key",
                               "proxy_hostname", "store_path"}]
MCOptional == [k \in Objects |-> IF k \in DOMAIN MaybeNull THEN MaybeNull[k] ELSE {}]

\* A payload comes with its meta text, and what is loaded comes as a whole.
Prepared == {"meta", "payload_buffer"}
MCTogether == [k \in Objects |->
    IF k \in {"time_series", "event_list", "data_source_configuration"} THEN {Prepared}
    ELSE IF k = "shared_secret" THEN {{"id_string", "secret_string", "token_string", "uri_string"}}
    ELSE IF k = "rsa_3072" THEN {{"id_string", "public_text", "private_text", "token_string", "uri_string"}}
    ELSE {}]
MCOnlyWith == [k \in Objects |-> IF Prepared \in MCTogether[k] THEN {<<"payload_buffer", "meta">>} ELSE {}]

\* The values after a step, when those before it are given.
ValuesAfter(f, s, values) ==
    {Snapshot(v.was, Done(s, v.is), v.left) : v \in {w \in values : Misusing(f, w.is, s.uses) = {}}}
    \cup (IF s.optional THEN values ELSE {})
    \cup (IF s.fallible /\ s.goes_on THEN {Snapshot(v.was, Cleaned(s, v.is), LeftOutBy(s, v)) : v \in values} ELSE {})
OutlineFrom(f, steps, starts) ==
    LET upto[i \in 0..Len(steps)] ==
            IF i = 0 THEN <<starts>> ELSE LET o == upto[i - 1] IN Append(o, ValuesAfter(f, steps[i], o[i]))
    IN upto[Len(steps)]
MCOutline == [f \in Functions |-> [G \in Groups[ClassOf(f)] |->
    OutlineFrom(f, StepsOf(f), Starts(Body[f], Frames[f], Befores(Body[f], G, Wholes[ClassOf(f)][G])))]]

-----------------------------------------------------------------------------
CONSTANTS n1, n2, n3, n4

VARIABLE part

library_vars == <<part, ownership_vars, list_vars, base64_vars>>

\* Three bytes that differ in every bit, in all sequences up to two quantums, and each
\* byte alone.
MCBytes == UNION {[1..n -> {0, 107, 255}] : n \in 0..5} \cup {<<b>> : b \in Byte}
\* A, =, and -, which only the URL alphabet has, in all texts up to a quantum and one
\* more, and A and = in all texts of two quantums.
MCTexts == UNION {[1..n -> {65, 61, 45}] : n \in 0..5} \cup [1..8 -> {65, 61}]

\* The parts that are not looked at start in one way.
LibraryInit ==
    /\ part \in {"ownership", "list", "base64"} /\ ListInit
    /\ Base64Init /\ (part # "base64" => alphabet = "base64")
    /\ OwnershipInit /\ (part # "ownership" => subject = CHOOSE k \in Subjects : TRUE)
LibraryNext ==
    /\ UNCHANGED part
    /\ \/ part = "ownership" /\ OwnershipNext /\ UNCHANGED <<list_vars, base64_vars>>
       \/ part = "list" /\ ListNext /\ UNCHANGED <<ownership_vars, base64_vars>>
       \/ part = "base64" /\ Base64Next /\ UNCHANGED <<ownership_vars, list_vars>>
LibrarySpec == LibraryInit /\ [][LibraryNext]_library_vars
=============================================================================
