-------------------------- MODULE MCListenerLog --------------------------
(* Small instances of ListenerLog for TLC. *)
EXTENDS ListenerLog

\* The listener asks for the family that is tried second.
SecondFits == <<"IP4", "IP6">>
=============================================================================
