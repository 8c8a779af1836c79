--------------------------- MODULE MCLinkExchange ---------------------------
(* Bounds for TLC: four strangers, one of every kind of object an arrival can *)
(* be, so that up to four arrivals race one repair.                           *)
EXTENDS LinkExchange

CONSTANTS lookalikeOld, lookalikeNew, foreignLink, directory

MCStrangers == {lookalikeOld, lookalikeNew, foreignLink, directory}
MCStrangerText == [s \in MCStrangers |->
                     CASE s = lookalikeOld -> "proven"
                       [] s = lookalikeNew -> "target"
                       [] s = foreignLink  -> "other"
                       [] s = directory    -> "notlink"]
=============================================================================
