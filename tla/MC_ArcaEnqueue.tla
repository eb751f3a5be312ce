--------------------------- MODULE MC_ArcaEnqueue ---------------------------
(* Instances of ArcaEnqueue for TLC. *)
EXTENDS ArcaEnqueue, TLC

CONSTANTS x1, x2, s1, s2

Ask(env, x, sale, content, receiver, n) ==
  [env |-> env, ext |-> x, sale |-> sale, content |-> content,
   receiver |-> receiver, number |-> n]

(* A large sale that is completed with either of two numbers, also by a    *)
(* request that has another sale; the same external id, the same sale and  *)
(* the same number used for something else, also in the other environment. *)
MCRequests ==
  { Ask("development", x1, s1, "large", FALSE, None),
    Ask("development", x1, s1, "large", FALSE, 1),
    Ask("development", x1, s1, "large", TRUE, None),
    Ask("development", x1, s1, "large", TRUE, 1),
    Ask("development", x1, s1, "large", TRUE, 2),
    Ask("development", x1, s2, "large", FALSE, None),
    Ask("production",  x1, s1, "small", FALSE, None),
    Ask("production",  x2, s1, "small", FALSE, None),
    Ask("development", x2, None, "small", FALSE, 1) }

Symmetry == Permutations(Handlers)

=============================================================================
