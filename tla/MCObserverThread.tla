---------------------------- MODULE MCObserverThread ----------------------------
(* Instances of the RemoteStateObserverThread for TLC.                      *)
EXTENDS RemoteStateObserverThread

CONSTANTS zero, d1, d2, s1, s2, v0, t1, t2

OneDevice == {zero, d1}
Devices == {zero, d1, d2}
OneDefinition == {s1}
Definitions == {s1, s2}
OneValue == {v0}
OneThread == {t1}
Threads == {t1, t2}
AllReports == {"Unknown", "Connected", "Disconnected"}
=================================================================================
