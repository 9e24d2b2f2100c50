------------------------------ MODULE MCResize ------------------------------
(* Resize on a pod of each class and with each way to lack a number.         *)
EXTENDS Resize

Of(req, lim) == [req |-> req, lim |-> lim]
Made(appMemory, appCpu, sidecarMemory, sidecarCpu) ==
  [c \in Container |-> [r \in Resource |->
     IF c = "app" THEN (IF r = "memory" THEN appMemory ELSE appCpu)
     ELSE (IF r = "memory" THEN sidecarMemory ELSE sidecarCpu)]]

MCPods == {Made(Of(2, 2), Of(1, 1), Of(1, 1), Of(1, 1)),      \* Guaranteed
           Made(Of(1, 2), Of(1, 1), Of(1, 1), Of(1, 1)),      \* Burstable
           Made(Of(2, 2), Of(0, 0), Of(1, 1), Of(0, 0)),      \* Burstable, memory pinned
           Made(Of(4, 8), Of(1, 0), Of(0, 0), Of(0, 0)),      \* Burstable, no limit of cpu
           Made(Of(0, 0), Of(0, 0), Of(0, 0), Of(0, 0))}      \* BestEffort

Bound(ceiling, ratio) == [r \in Resource |-> IF r = "memory" THEN [ceiling |-> ceiling, ratio |-> ratio]
                                              ELSE [ceiling |-> 0, ratio |-> 0]]
MCRanges == {Bound(0, 0), Bound(0, 1), Bound(0, 2), Bound(4, 2)}

Want(memory, cpu) == [r \in Resource |-> IF r = "memory" THEN memory ELSE cpu]
MCWants == {Want(Of(0, 4), Of(0, 0)), Want(Of(0, 8), Of(0, 2)), Want(Of(4, 4), Of(0, 0)),
            Want(Of(0, 1), Of(0, 0)), Want(Of(4, 1), Of(0, 0)), Want(Of(0, 0), Of(0, 2))}
=============================================================================
