--------------------------- MODULE MCCapReport ---------------------------
(***************************************************************************)
(* Instances of CapReport for TLC: every node and seat the source tells    *)
(* apart, alone, and two seats that probe one pod at once.                 *)
(***************************************************************************)
EXTENDS CapReport, TLC

App  == [uid |-> 1000, gid |-> 1000, shell |-> FALSE, threads |-> 4, depth |-> 1]
Root == [App EXCEPT !.uid = 0, !.gid = 0, !.threads = 1, !.depth = 0]
Entrypoint == [Root EXCEPT !.shell = TRUE]

Full   == [uid |-> 0, gid |-> 0, cap |-> TRUE, cid |-> TRUE, libc |-> TRUE, behind |-> FALSE]
Same   == [Full EXCEPT !.uid = 1000, !.gid = 1000, !.cap = FALSE]
Group0 == [Same EXCEPT !.gid = 0]
Capless == [Full EXCEPT !.cap = FALSE]
Behind == [Group0 EXCEPT !.behind = TRUE]
Unled  == [Same EXCEPT !.cid = FALSE]
NoLibc == [Same EXCEPT !.libc = FALSE]

Node == [yama |-> 1, filter |-> "permits", lsm |-> "same", seize |-> TRUE, faults |-> 1,
         procs |-> (1 :> Entrypoint @@ 2 :> App), seats |-> ("a" :> Full)]

SurveyScenes ==
  {[Node EXCEPT !.yama = y, !.filter = f, !.lsm = l, !.seats = ("a" :> seat)] :
     y \in {NoScope, 0, 1, 2, 3}, f \in {"none", "permits", "denies"},
     l \in {"none", "same", "differ", "hidden"},
     seat \in {Full, Same, Group0, Capless, Behind, Unled, NoLibc}}

(* An old kernel, and processes of two users. *)
FallbackScenes ==
  {[Node EXCEPT !.seize = FALSE, !.yama = y, !.faults = 3, !.seats = ("a" :> seat),
                !.procs = (1 :> Root @@ 2 :> App)] :
     y \in {NoScope, 1}, seat \in {Full, Same, Capless}}

PairScenes ==
  {[Node EXCEPT !.seize = z, !.yama = y, !.faults = 2, !.seats = ("a" :> Full @@ "b" :> seat)] :
     z \in BOOLEAN, y \in {0, 1}, seat \in {Full, Same, Group0}}

AllScenes == SurveyScenes \cup FallbackScenes \cup PairScenes

=============================================================================
