--------------------------- MODULE PublishSession ---------------------------
(***************************************************************************)
(* What a source promises about its publishers: one at a time, and every   *)
(* message its services see belongs to the session that is open.           *)
(*                                                                         *)
(* A session is begun by one connection; its services are either set up    *)
(* (live) or not, when one of them failed; they are torn down before the   *)
(* session ends and another connection can begin one.                      *)
(***************************************************************************)
CONSTANTS Conns, NoConn

VARIABLES
    owner,   \* the connection whose session is open
    live,    \* the services of the source take messages
    heard    \* the connection of the last message of this session

Init == owner = NoConn /\ live = FALSE /\ heard = NoConn

Begin(c) ==
    /\ owner = NoConn
    /\ owner' = c
    /\ live' \in BOOLEAN
    /\ heard' = NoConn

Message(c) ==
    /\ owner = c
    /\ live
    /\ heard' = c
    /\ UNCHANGED <<owner, live>>

Close(c) ==
    /\ owner = c
    /\ live' = FALSE
    /\ UNCHANGED <<owner, heard>>

End(c) ==
    /\ owner = c
    /\ ~live
    /\ owner' = NoConn
    /\ UNCHANGED <<live, heard>>

Next == \E c \in Conns : Begin(c) \/ Message(c) \/ Close(c) \/ End(c)

Spec == Init /\ [][Next]_<<owner, live, heard>>
=============================================================================
