---------------------------- MODULE ReceiptChain ----------------------------
(***************************************************************************)
(* What a receipt chain promises (OAP-CORE section 19.2): it only grows,   *)
(* by one receipt at a time, and each new receipt cites the one that was   *)
(* the head of the chain.                                                  *)
(***************************************************************************)
CONSTANTS Receipts,   \* the receipts there may ever be
          genesis     \* what the first receipt cites

VARIABLES links,    \* the pairs <<receipt, the receipt it cites>>
          head      \* the last receipt

vars == <<links, head>>

Init == links = {} /\ head = genesis

Append(r) ==
    /\ \A l \in links : l[1] # r
    /\ links' = links \cup {<<r, head>>}
    /\ head' = r

Next == \E r \in Receipts : Append(r)

Spec == Init /\ [][Next]_vars

=============================================================================
