------------------------------ MODULE DataObjects ------------------------------
(***************************************************************************)
(* The functions that make, change and destroy what an application puts    *)
(* into a store.  A string_t, a json_t or a list_t counts as one block     *)
(* here: list_initialize, json_util_duplicate and the string_initialize    *)
(* functions leave their pointer NULL when they fail.                      *)
(***************************************************************************)
EXTENDS Steps

(* store.c *)
StoreDestroy == {"store", "high_priority_list", "low_priority_list"}
StoreInitialize ==
    Creates("store", {}, {},
        << Take("store", {}),
           Take("high_priority_list", StoreDestroy),
           Take("low_priority_list", StoreDestroy) >>)

\* What an item's entry of the list owns besides the item itself.
StoreDataDestroy == {"store_data", "meta", "payload_buffer"}
Unprepared == {"meta", "payload_buffer"}
StoreAddData(destroy) == << Take("store_data", destroy), Check(destroy \cup {"store_data"}) >>

\* The meta text and the payload of an item, when a request is filled.
\* Mutant of PrepareComposed: the meta text is kept when there is no payload.
PrepareKeepingMeta(class) ==
    [Changes(class, {"payload_string"},
        << Take("meta", {}), Take("payload_string", {}), Move("payload_buffer", "payload_string") >>)
     EXCEPT !.unless = {"meta"}]
PrepareComposed(class) ==
    [Changes(class, {"payload_string"},
        << Take("meta", {}), Take("payload_string", {"meta"}), Move("payload_buffer", "payload_string") >>)
     EXCEPT !.unless = {"meta"}]
PrepareGiven(class) == [Changes(class, {}, << Take("meta", {}) >>) EXCEPT !.unless = {"meta"}]

-----------------------------------------------------------------------------
(* time_series.c *)
TimeSeriesFields == {"type", "version", "routing", "payload_type", "payload_version",
                     "configuration_id", "value_sets"}
TimeSeriesDestroy == TimeSeriesFields \cup {"time_series"}
TimeSeriesMeta ==
    Takes(<<"type", "version">>, TimeSeriesDestroy)
    \o << Maybe("routing", TimeSeriesDestroy) >>
    \o Takes(<<"payload_type", "payload_version", "configuration_id">>, TimeSeriesDestroy)
TimeSeriesInitialize ==
    << Take("time_series", {}) >> \o TimeSeriesMeta \o << Take("value_sets", TimeSeriesDestroy) >>
StoreNewTimeSeries ==
    Creates("time_series", {"store"}, TimeSeriesFields \cup Unprepared,
        TimeSeriesInitialize \o StoreAddData(TimeSeriesDestroy))

ValueSetDestroy == {"value_set", "timestamp", "values"}
\* Mutant of TimeSeriesNewValueSet: the time series is not looked at.
NewValueSetWithoutTimeSeries ==
    Creates("value_set", {}, {},
        << Take("value_set", {}) >>
        \o Takes(<<"timestamp", "values">>, ValueSetDestroy)
        \o << Check(ValueSetDestroy) >>)
TimeSeriesNewValueSet ==
    Creates("value_set", {"time_series"}, {},
        << Take("value_set", {}) >>
        \o Takes(<<"timestamp", "values">>, ValueSetDestroy)
        \o << Check(ValueSetDestroy) >>)

ValueDestroy == {"value", "data_point_id", "value_text", "quality_code"}
TimeSeriesAddValue ==
    Creates("value", {"value_set"}, {},
        << Take("value", {}) >>
        \o Takes(<<"data_point_id", "value_text", "quality_code">>, ValueDestroy)
        \o << Check(ValueDestroy) >>)

-----------------------------------------------------------------------------
(* event_list.c, event.c *)
EventListFields == {"type", "version", "payload_type", "payload_version", "events"}
EventListDestroy == EventListFields \cup {"event_list", "event_list_meta"}
EventListMeta == Takes(<<"type", "version", "payload_type", "payload_version">>, EventListDestroy)
EventListInitialize ==
    << Take("event_list", {}), Take("event_list_meta", {"event_list"}) >>
    \o EventListMeta \o << Take("events", EventListDestroy) >>

EventFields == {"id", "correlation_id", "timestamp", "description", "event_type", "event_version", "details"}
EventDestroy == EventFields \cup {"event", "payload"}
EventInitialize ==
    << Take("event", {}), Take("payload", {"event"}) >>
    \o Takes(<<"id", "event_type", "event_version", "timestamp">>, EventDestroy)

\* The first event of its version brings an event list with it.
StoreNewEventList ==
    [Creates("event_list", {"store"}, EventListFields \cup Unprepared,
        EventListInitialize \o StoreAddData(EventListDestroy))
     EXCEPT !.next = "mcl_store_new_event"]
\* Mutant of StoreNewEvent: the fields are not set to NULL.
NewEventUnwritten ==
    Creates("event", {"event_list"}, {},
        EventInitialize \o << Check(EventDestroy) >>)
StoreNewEvent ==
    Creates("event", {"event_list"}, EventFields,
        EventInitialize \o << Check(EventDestroy) >>)

\* The old value goes before the new one is there.
EventSetOption(option) == Changes("event", {}, << Drop({option}), Take(option, {}) >>)

-----------------------------------------------------------------------------
(* custom_data.c *)
CustomDataFields == {"type", "version", "routing", "payload_type", "payload_version", "details_json"}
CustomDataDestroy == CustomDataFields \cup {"custom_data"}
CustomDataMeta ==
    Takes(<<"type", "version">>, CustomDataDestroy)
    \o << Maybe("routing", CustomDataDestroy) >>
    \o Takes(<<"payload_type", "payload_version">>, CustomDataDestroy)
CustomDataInitialize == << Take("custom_data", {}) >> \o CustomDataMeta
StoreNewCustomData ==
    Creates("custom_data", {"store"}, CustomDataFields \cup Unprepared,
        CustomDataInitialize \o StoreAddData(CustomDataDestroy))
CustomDataSetMetaDetails == Changes("custom_data", {}, << Take("details_json", {}) >>)

-----------------------------------------------------------------------------
(* file.c *)
FileFields == {"type", "version", "routing", "payload_type", "payload_version",
               "file_name", "creation_date", "file_type", "descriptor"}
FileDestroy == FileFields \cup {"file"}
FileInitialize ==
    << Take("file", {}) >>
    \o Takes(<<"type", "version">>, FileDestroy)
    \o << Maybe("routing", FileDestroy) >>
    \o Takes(<<"payload_type", "payload_version", "descriptor", "file_name">>, FileDestroy)
    \o << Maybe("file_type", FileDestroy), Check(FileDestroy), Check(FileDestroy),
          Take("creation_date", FileDestroy) >>
StoreNewFile ==
    Creates("file", {"store"}, FileFields \cup Unprepared,
        FileInitialize \o StoreAddData(FileDestroy))

-----------------------------------------------------------------------------
(* data_source_configuration.c *)
ConfigurationFields == {"type", "version", "routing", "payload_type", "payload_version",
                        "configuration_id", "data_sources"}
ConfigurationDestroy == (ConfigurationFields \ {"routing"}) \cup {"data_source_configuration"}
ConfigurationMeta ==
    Takes(<<"type", "version", "payload_type", "payload_version">>, ConfigurationDestroy)
ConfigurationPayload == Takes(<<"configuration_id", "data_sources">>, ConfigurationDestroy)
ConfigurationInitialize ==
    << Take("data_source_configuration", {}) >> \o ConfigurationMeta \o ConfigurationPayload
StoreNewConfiguration ==
    Creates("data_source_configuration", {"store"}, ConfigurationFields \cup Unprepared,
        ConfigurationInitialize \o StoreAddData(ConfigurationDestroy))
ConfigurationGetId ==
    Changes("data_source_configuration", {},
        << Take("configuration_id_local", {}), Hand({"configuration_id_local"}) >>)

DataSourceFields == {"name", "description", "data_points", "custom_json"}
DataSourceDestroy == DataSourceFields \cup {"data_source"}
ConfigurationAddDataSource ==
    Creates("data_source", {"data_source_configuration"}, DataSourceFields,
        << Take("data_source", {}), Take("name", DataSourceDestroy),
           Maybe("description", DataSourceDestroy), Maybe("custom_json", DataSourceDestroy),
           Take("data_points", DataSourceDestroy), Check(DataSourceDestroy) >>)

DataPointFields == {"id", "name", "description", "point_type", "unit", "custom_json"}
DataPointDestroy == DataPointFields \cup {"data_point"}
ConfigurationAddDataPoint ==
    Creates("data_point", {"data_source"}, DataPointFields,
        << Take("data_point", {}) >>
        \o Takes(<<"id", "name">>, DataPointDestroy)
        \o << Maybe("description", DataPointDestroy) >>
        \o Takes(<<"point_type", "unit">>, DataPointDestroy)
        \o << Maybe("custom_json", DataPointDestroy), Check(DataPointDestroy) >>)

=============================================================================
