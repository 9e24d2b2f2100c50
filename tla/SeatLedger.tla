----------------------------- MODULE SeatLedger -----------------------------
(***************************************************************************)
(* What `podbench attach` promises about the names of a pod, with the      *)
(* ladder, the API calls and the measurements left out.                    *)
(*                                                                         *)
(* The ledger says who authored the container behind each name taken so    *)
(* far.  Only an attach in progress takes a name, a free one, under its    *)
(* own stamp; it settles on at most one seat at a time, its own or one     *)
(* that is not provably somebody else's; and the seat it hands over is the *)
(* one it settled on.  Names come back only with a new pod.                *)
(***************************************************************************)
EXTENDS Integers

CONSTANTS Launchers,
          Owner,        \* Owner[l]: who runs l, or NoOwner
          Key,          \* Key[l]: the key l offers
          NoOwner

NoName  == -1
Sidecar == 0

VARIABLES ledger,    \* the stamp of each name taken
          busy,      \* the attaches in progress
          settled,   \* the seat each of them has settled on
          given      \* the seat the last attach of each handed over

vars == <<ledger, busy, settled, given>>

Init ==
  /\ ledger = <<>>
  /\ busy = {}
  /\ settled = [l \in Launchers |-> NoName]
  /\ given = [l \in Launchers |-> NoName]

Begin(l) ==
  /\ l \notin busy
  /\ busy' = busy \cup {l}
  /\ given' = [given EXCEPT ![l] = NoName]
  /\ UNCHANGED <<ledger, settled>>

Stamp(l) == [owner |-> Owner[l], key |-> Key[l]]

(* Reuse is denied only where both owners are known and differ. *)
Reuses(l, stamp) == \/ stamp.owner = NoOwner
                    \/ Owner[l] = NoOwner
                    \/ stamp.owner = Owner[l]

(* A free name is taken; the attach settles on it, or never hears of it. *)
Land(l) ==
  /\ l \in busy
  /\ \E n \in DOMAIN ledger' :
       /\ n \notin DOMAIN ledger
       /\ n # Sidecar
       /\ ledger' = [m \in DOMAIN ledger \cup {n} |->
                       IF m = n THEN Stamp(l) ELSE ledger[m]]
       /\ \/ /\ settled' = [settled EXCEPT ![l] = n]
             /\ UNCHANGED <<busy, given>>
          \/ /\ settled' = [settled EXCEPT ![l] = NoName]
             /\ busy' = busy \ {l}
             /\ UNCHANGED given

(* A seat that is there already: the dev pod's sidecar, or one to reuse. *)
Adopt(l, n) ==
  /\ l \in busy
  /\ settled[l] = NoName
  /\ n = Sidecar \/ (n \in DOMAIN ledger /\ Reuses(l, ledger[n]))
  /\ settled' = [settled EXCEPT ![l] = n]
  /\ UNCHANGED <<ledger, busy, given>>

(* The node refused it, or it calls for a corrected one. *)
LetGo(l) ==
  /\ settled' = [settled EXCEPT ![l] = NoName]
  /\ UNCHANGED <<ledger, busy, given>>

HandOver(l) ==
  /\ l \in busy
  /\ settled[l] # NoName
  /\ given' = [given EXCEPT ![l] = settled[l]]
  /\ settled' = [settled EXCEPT ![l] = NoName]
  /\ busy' = busy \ {l}
  /\ UNCHANGED ledger

Fail(l) ==
  /\ l \in busy
  /\ busy' = busy \ {l}
  /\ settled' = [settled EXCEPT ![l] = NoName]
  /\ UNCHANGED <<ledger, given>>

PodReplaced ==
  /\ ledger' = <<>>
  /\ UNCHANGED <<busy, settled, given>>

Next ==
  \/ \E l \in Launchers :
       \/ Begin(l) \/ Land(l) \/ LetGo(l) \/ HandOver(l) \/ Fail(l)
       \/ \E n \in DOMAIN ledger \cup {Sidecar} : Adopt(l, n)
  \/ PodReplaced

Spec == Init /\ [][Next]_vars

=============================================================================
