--------------------------- MODULE MCOverlayControl -------------------------
(* Small instances of control runs for TLC. *)
EXTENDS OverlayControl, TLC

NoKey == "none"
T(kind) == [kind |-> kind, key |-> NoKey]
R(key) == [kind |-> "rgd", key |-> key]

(* {type} {wait} {set}, and an include between {set} and {type}. *)
ControlScripts == {<<T("act"), T("wait"), T("set")>>, <<R("a"), T("act")>>}
ControlTexts == "a" :> {<<T("set")>>} @@ NoKey :> {}
ControlWeight == [t \in Token |-> IF t.kind = "rgd" /\ t.key = "a" THEN 2 ELSE 1]

=============================================================================
