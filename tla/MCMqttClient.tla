---------------------------- MODULE MCMqttClient ----------------------------
EXTENDS MqttClient

\* A filter that takes anything below a level, and one topic there.
MCFilters == {<<"a", "#">>}
MCTopics == {<<"a", "b">>}
=============================================================================
