-------------------------- MODULE MCTraceController --------------------------
(***************************************************************************)
(* Networks for model checking.  A path is described by what the main flow *)
(* and each token of the pool meet at each TTL.                            *)
(***************************************************************************)
EXTENDS TraceClaims

CONSTANTS A, B, C, D,     \* responders; D is the destination
          t1, t2, t3      \* tokens of the pool

MCResponders == {A, B, C, D}
MCTokens == {t1, t2, t3}
MCMutations == {"dscp"}

Via(who)  == [kind |-> "time_exceeded", who |-> who, mut |-> {}]
Rewritten(who) == [kind |-> "time_exceeded", who |-> who, mut |-> {"dscp"}]
Arrived(who) == [kind |-> "destination", who |-> who, mut |-> {}]
Refusing(who) == [kind |-> "unreachable", who |-> who, mut |-> {}]

(* A path: per TTL, what each flow may meet.  Beyond its end the network   *)
(* answers as it does at its end.                                          *)
Path(at) == [x \in TTLs \X FlowTokens |->
               IF x[1] \in DOMAIN at THEN at[x[1]][x[2]] ELSE at[Len(at)][x[2]]]

Every(S) == [t \in FlowTokens |-> S]
Split(S, T) == [t \in FlowTokens |-> IF t \in {MainToken, t1} THEN S ELSE T]

Clear      == Path(<<Every({Via(A)}), Every({Via(B)}), Every({Arrived(D)})>>)
Flickering == Path(<<Every({Via(A)}), Every({Via(B), Silence}), Every({Arrived(D)})>>)
Opaque     == Path(<<Every({Via(A)}), Every({Silence}), Every({Arrived(D)})>>)
Hidden     == Path(<<Every({Silence}), Every({Via(B)}), Every({Arrived(D)})>>)
Balanced   == Path(<<Every({Via(A)}), Split({Via(B)}, {Via(C)}), Every({Arrived(D)})>>)
FlowLossy  == Path(<<Every({Via(A)}), Split({Via(B)}, {Silence}), Every({Arrived(D)})>>)
Flapping   == Path(<<Every({Via(A)}), Every({Via(B), Via(C)}), Every({Arrived(D)})>>)
Unsteady   == Path(<<Every({Via(A)}), Split({Via(B), Via(C), Silence}, {Via(B)}),
                     Every({Arrived(D)})>>)
Rewriting  == Path(<<Every({Via(A)}), Every({Rewritten(B)}), Every({Rewritten(C)}),
                     Every({Arrived(D)})>>)
Dark       == Path(<<Every({Silence})>>)
TailSilent == Path(<<Every({Via(A)}), Every({Via(B), Silence}), Every({Silence})>>)
Faint      == Path(<<Every({Via(A)}), Every({Via(B), Silence}), Split({Via(C)}, {Silence}),
                     Every({Silence})>>)
Fading     == Path(<<Every({Via(A)}), Split({Via(B)}, {Via(C)}), Every({Via(A), Silence}),
                     Every({Silence})>>)
Filtered   == Path(<<Every({Via(A)}), Every({Via(B), Refusing(B)}), Every({Arrived(D)})>>)
Elastic    == Path(<<Every({Via(A)}), Every({Via(B)}), Every({Arrived(D), Silence}),
                     Every({Arrived(C)})>>)
Mixed      == Path(<<Every({Via(A)}), Every({Silence}), Split({Via(B)}, {Rewritten(C)}),
                     Every({Arrived(D), Silence}), Every({Arrived(D), Silence}),
                     Every({Arrived(D)})>>)
Rising     == Path(<<Every({Via(A)}), Split({Via(B)}, {Via(C)}), Every({Via(B)}),
                     Split({Via(C), Silence}, {Silence}), Every({Arrived(D)})>>)

(* Gaps of five to eight TTLs, and as many that balance: windows sampled   *)
(* whole, or at their ends and in the middle.                              *)
Gap(n) == Path(<<Every({Via(A)})>> \o [i \in 1..n |-> Every({Silence})]
               \o <<Every({Arrived(D)})>>)
Broad  == Path(<<Every({Via(A)})>> \o [i \in 1..7 |-> Split({Via(B)}, {Via(C)})]
               \o <<Every({Arrived(D), Silence}), Every({Arrived(D)})>>)

MCNetworks == {Clear, Flickering, Opaque, Hidden, Balanced, FlowLossy, Flapping, Unsteady,
               Rewriting, Dark, Faint, Fading, Filtered, Elastic, Mixed,
               Rising, Gap(5), Gap(6), Gap(8), Broad}

(* Few probes: every kind of bundle is the one that does not fit, on the   *)
(* long path already the second sweep.                                     *)
Short == Path(<<Every({Via(A), Silence}), Every({Arrived(D)})>>)
Long  == Path(<<Every({Via(A)}), Split({Via(B)}, {Via(C)}), Every({Silence}),
                Every({Via(A)}), Every({Via(B), Silence}), Every({Arrived(D)})>>)
BudgetNetworks == {Short, Long, Flickering, Balanced, Elastic, Mixed, TailSilent}

(* Whole-path sampling and the kernel control.                             *)
GlobalNetworks == {Clear, Opaque, Flapping, Balanced, Dark, Filtered}

(* One network per refuted claim.                                          *)
OnlyOpaque   == {Opaque}
OnlyBalanced == {Balanced}
OnlyShifting == {Path(<<Every({Via(A)}), Every({Via(B), Via(C), Silence}),
                        Every({Arrived(D)})>>)}
(* Two overlapping regions, the second one TTL beyond the only chunk the   *)
(* budget leaves the canary.                                               *)
Straddling   == {Path([i \in 1..3 |-> Every({Via(A)})]
                      \o <<Every({Silence}), Split({Via(B)}, {Via(C)})>>
                      \o [i \in 1..4 |-> Every({Via(A)})] \o <<Every({Arrived(D)})>>)}

=============================================================================
