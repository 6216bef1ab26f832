--------------------------- MODULE MCApisixGateway ---------------------------
(* Instances of ApisixGateway for TLC. *)
EXTENDS ApisixGateway, TLC

CONSTANTS p1, p2, p3, p4, m1, m2, m3, m4, c1, c2, c3

(* Two pods in leader mode, one caller and one controller each. *)
TwoPods == (m1 :> p1) @@ (m2 :> p2) @@ (c1 :> p1) @@ (c2 :> p2)
BothLeader == [p \in {p1, p2} |-> "leader"]
FlagNil == [p \in {p1, p2} |-> "nil"]
FlagTrue == [p \in {p1, p2} |-> "true"]
OneCall == (m1 :> 1) @@ (m2 :> 1)
TwoAndOneCalls == (m1 :> 2) @@ (m2 :> 1)

(* The same with a second controller for p1, that registers again. *)
ThreeCtls == TwoPods @@ (c3 :> p1)
SameCtls == Permutations({c1, c3})

(* One pod in leader mode, two callers of its gateway, two controllers: the *)
(* service is registered again.                                            *)
OnePod == [x \in {m1, m2, c1, c2} |-> p1]
OneLeader == [p \in {p1} |-> "leader"]
OneFlagTrue == [p \in {p1} |-> "true"]

(* p1 and p2 in single mode, p2 told not to delete; p3 switched off; p4 in *)
(* leader mode with lease timing that client-go rejects.                   *)
FourPods == (m1 :> p1) @@ (m2 :> p2) @@ (m3 :> p3) @@ (m4 :> p4) @@ (c1 :> p4)
MixedModes == (p1 :> "single") @@ (p2 :> "single") @@ (p3 :> "off") @@ (p4 :> "leader")
MixedFlags == (p1 :> "nil") @@ (p2 :> "false") @@ (p3 :> "nil") @@ (p4 :> "true")
MixedCalls == (m1 :> 2) @@ (m2 :> 1) @@ (m3 :> 1) @@ (m4 :> 1)
=============================================================================
