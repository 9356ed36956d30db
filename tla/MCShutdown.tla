---------------------------- MODULE MCShutdown ----------------------------
(* Instances of Shutdown for TLC. *)
EXTENDS Shutdown, TLC

CONSTANTS r1, w1, s1, t1, t2, none

MCRequests == {r1}
MCWorkers  == {w1}
MCHandlers == {r1, w1}
MCStreams  == {s1}
MCTopics   == {t1, t2}
MCTopicOf  == s1 :> t1
=============================================================================
