----------------------------- MODULE MCOtaManager -----------------------------
EXTENDS OtaManager
U(c, t, v, sha, url) == [component |-> c, type |-> t, version |-> v, sha |-> sha, url |-> url]
MCManifest == <<U("ros2", "ros2", 3, TRUE, TRUE), U("model", "model", 2, TRUE, TRUE),
                U("model2", "model2", 2, TRUE, FALSE)>>
MCTriggers == {U("config", "config", 2, TRUE, TRUE), U("config", "config", 2, FALSE, TRUE),
               U("ros2", "ros2", 2, TRUE, TRUE), U("extra", "extra", 2, TRUE, TRUE)}
==============================================================================
