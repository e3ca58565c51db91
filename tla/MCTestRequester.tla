---------------------------- MODULE MCTestRequester ----------------------------
(* Two Pods on the node of two GPUs, and a third Pod with a GPU on a node of    *)
(* its own; each Pod asks for one GPU and sees them all.                        *)
EXTENDS TestRequester

CONSTANTS p1, p2, p3, g1, g2, g3, n1, n2

MCNodeOfGPU == [g \in GPUs |-> IF g = g3 THEN n2 ELSE n1]
MCNodeOfPod == [p \in Pods |-> IF p = p3 THEN n2 ELSE n1]
MCVisible == [p \in Pods |-> GPUs]
MCNumGPUs == [p \in Pods |-> 1]
===============================================================================
