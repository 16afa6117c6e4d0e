------------------------------- MODULE Documents -------------------------------
(***************************************************************************)
(* The functions of json_util.c on a json_t, and those of json.c that      *)
(* write what an object holds into one.  A json_t is a wrapper around a    *)
(* handle of cJSON, which owns its children.                               *)
(***************************************************************************)
EXTENDS Steps

(* json_util.c *)
JsonUtilInitialize == Creates("json", {}, {"children"}, << Take("root", {}), Take("root_handle", {"root"}) >>)
JsonUtilGetArrayItem == JsonUtilInitialize
JsonUtilDuplicate == JsonUtilInitialize
\* Mutant of JsonUtilParse: a text that is not JSON keeps the wrapper.
ParseKeepingRoot == Creates("json", {}, {"children"}, << Take("root", {}), Take("root_handle", {}) >>)
JsonUtilParse == Creates("json", {}, {"children"}, << Take("root", {}), Take("root_handle", {"root"}) >>)

\* An object must not have a child of that name yet.
IsNewName == << Take("json_child", {}), Drop({"json_child"}), Check({}) >>
\* cJSON may have no memory for the child, and says nothing.
JsonUtilAddString == Changes("json", {}, IsNewName \o << Extend("children", {}) >>)
JsonUtilAddUint   == JsonUtilAddString
JsonUtilAddDouble == JsonUtilAddString
JsonUtilAddBool   == JsonUtilAddString
JsonUtilAddNull   == JsonUtilAddString
\* Mutant of JsonUtilAddObject: the child may be missing, and nobody looks.
AddObjectUnchecked == Changes("json", {}, << Extend("children", {}) >>)
JsonUtilAddObject == Changes("json", {}, IsNewName \o << Join("children", "object") >>)
\* What json_util_add_object answers is not passed on.
MclJsonUtilAddObject == Changes("json", {}, << Extend("children", {}) >>)
JsonUtilStartObject ==
    [Changes("json", {}, IsNewName \o << Take("json_object", {}), Join("children", "handle"), Hand({"json_object"}) >>)
     EXCEPT !.when = {"root_handle"}]
JsonUtilStartArray ==
    [Changes("json", {}, IsNewName \o << Take("json_array", {}), Join("children", "handle"), Hand({"json_array"}) >>)
     EXCEPT !.when = {"root_handle"}]

JsonUtilGetObjectItem == Computes({"json_child"}, {}, << Take("json_child", {}), Check({"json_child"}) >>)
\* The text is taken out of its string_t.
MclJsonUtilGetString ==
    Computes({"string_value"}, {},
        << Take("string_value_local", {}), Move("string_value", "text"), Drop({"string_value_local"}) >>)

-----------------------------------------------------------------------------
(* json.c *)
\* The tree, with n parts, is printed; the text is lost with the string_t that
\* was to hold it.
Printed(n) ==
    Computes({"json_string"}, {},
        << Take("root", {}) >> \o Checks(n, {"root"})
        \o << Take("json_string_local", {"root"}), Wrap("json_string", "json_string_local", {"root"}), Drop({"root"}) >>)
JsonFromItemMeta == Printed(4)
JsonFromTimeSeriesPayload == Printed(1)
JsonFromDataSourceConfigurationPayload == Printed(2)
JsonFromEventPayload == Printed(1)

\* A tree with n parts that becomes a child of another.
Child(tree, n) == Computes({tree}, {}, << Take(tree, {}) >> \o Checks(n, {tree}))
AddTimeSeriesValueSet == Child("value_set_local", 2)
AddTimeSeriesPayloadValuesArray == Child("values_array", 2)
AddTimeSeriesPayloadValuesObjects == Child("values_object", 3)
AddItemMetaDetails == Child("details", 2)
AddItemMetaPayload == Child("payload", 3)
AddEvent ==
    Computes({"event_local", "details_json"}, {"details_json"},
        << Take("event_local", {}) >> \o Checks(7, {"event_local"})
        \o << Take("details_json", {"event_local"}), Check({"details_json", "event_local"}) >>)
\* Details that cannot be added are destroyed, and nobody hears of it.
AddItemMetaPayloadDetails ==
    Computes({"details"}, {"payload_details"},
        << Maybe("payload_details", {}) >> \o Checks(3, {"payload_details"})
        \o << [Turn({"payload_details"}, "details", {}) EXCEPT !.goes_on = TRUE] >>)

\* The object of an element goes into the array whatever has failed before; it is
\* followed even if there is none.
Element(object) == << Try(object), Use(object) >>
AddDataSources ==
    Computes({}, {},
        << Take("data_sources_array", {}) >> \o Element("data_sources_object")
        \o << Extend("data_sources_object", {}), Hand({"data_sources_object"}), Drop({"data_sources_array"}) >>)
\* The answer is the last data point's.
AddDataPoints ==
    LET both == {"data_points_array", "data_points_object"} IN
    Computes({}, {},
        << Take("data_points_array", {}) >> \o Element("data_points_object")
        \o << Extend("data_points_object", {}), Hand({"data_points_object"}) >> \o Element("data_points_object")
        \o << Check(both), Drop(both) >>)

=============================================================================
