------------------------------- MODULE HadRole -------------------------------
(***************************************************************************)
(* What one had process promises to the daemons that follow its role (wid, *)
(* eag, pppoe, dhcp and hmd) and to the network: which state may follow    *)
(* which, with the virtual address and the notified role handed over in    *)
(* the same step.  Timers, links, packets, priorities and flags are left   *)
(* out.  HadOpen implements this specification.                            *)
(***************************************************************************)

VARIABLES
    state,      \* the HANSI state
    vip,        \* the virtual address is installed here
    told        \* the role last notified

roleVars == <<state, vip, told>>

Init == state = "INIT" /\ vip = FALSE /\ told = "NONE"

\* The node is in state st without the address, and the others are told t.
Without(st, t) == state' = st /\ vip' = FALSE /\ told' = t

\* The service starts: it listens before it takes any role.
Learn == state = "INIT" /\ Without("LEARN", told)

\* Batch synchronisation, before a takeover from a live master.  A master
\* never goes back to it.
Transfer == state \notin {"TRANSFER", "MAST"} /\ Without("TRANSFER", "BACK")

\* The role is taken: from any state, in one step with address and notice.
Take == state # "MAST" /\ state' = "MAST" /\ vip' = TRUE /\ told' = "MAST"

\* The node follows another master.  A node that prepares a takeover does not
\* fall back to standby, and one that has not listened is no standby.
Follow == state \in {"LEARN", "MAST", "DISABLE"} /\ Without("BACK", "BACK")

\* The node is out of service.  A standby never is: only had_dbus_end and a
\* disabled service take it out of BACK other than by a takeover.
Leave == state \notin {"BACK", "DISABLE"} /\ Without("DISABLE", "DISABLE")

\* The service is disabled: everybody is told.
Rest == state # "INIT" /\ Without("INIT", "DISABLE")

\* The profile ends: only the end of a mastership is told.
End == state # "INIT" /\ Without("INIT", IF state = "MAST" THEN "DISABLE" ELSE told)

Next == Learn \/ Transfer \/ Take \/ Follow \/ Leave \/ Rest \/ End

Spec == Init /\ [][Next]_roleVars
=============================================================================
