--------------------------- MODULE CandidateOrder ---------------------------
(* Supervisor.Order: how a list of upstream candidates is reordered by     *)
(* their passive health.  A candidate is a proxy key or Direct.            *)
EXTENDS Integers, Sequences, Subsequences

CONSTANT Direct

Among(list, S) == {i \in DOMAIN list : list[i] \in S}
In(list, S)    == Sift(list, Among(list, S))

(* The explicit candidates' slots, and those of them that are cooled. *)
Explicit(list)       == {i \in DOMAIN list : list[i] # Direct}
Cooling(list, cooled) == {i \in Explicit(list) : list[i] \in cooled}

(* Mutant of Order: DIRECT moves with the rest. *)
OrderMovingDirect(list, cooled) ==
  In(list, {list[i] : i \in DOMAIN list} \ cooled) \o In(list, cooled)

(* Healthy candidates take the explicit slots before the cooled ones; the  *)
(* DIRECT slots stay where routing put them.  With none or all of them     *)
(* cooled the list is left alone.                                          *)
Order(list, cooled) ==
  LET explicit  == Explicit(list)
      bad       == Cooling(list, cooled)
      reordered == Sift(list, explicit \ bad) \o Sift(list, bad)
  IN  IF Len(list) < 2 \/ bad = {} \/ bad = explicit
      THEN list
      ELSE [i \in DOMAIN list |->
              IF i \in explicit THEN reordered[Rank(explicit, i)] ELSE list[i]]

(* What Order promises of its result: the DIRECT slots are those of the    *)
(* list, each class keeps its members and their order, and unless every    *)
(* explicit candidate is cooled none of them precedes a healthy one.       *)
OrderIsSound(list, cooled) ==
  LET out      == Order(list, cooled)
      bad      == cooled \ {Direct}
      healthy  == {c \in {list[i] : i \in DOMAIN list} : c # Direct /\ c \notin cooled}
  IN  /\ DOMAIN out = DOMAIN list
      /\ \A i \in DOMAIN list : out[i] = Direct <=> list[i] = Direct
      /\ In(out, bad) = In(list, bad)
      /\ In(out, healthy) = In(list, healthy)
      /\ \A i, j \in DOMAIN out : out[i] \in bad /\ out[j] \in healthy => j < i
=============================================================================
