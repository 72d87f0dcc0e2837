------------------------- MODULE MCRegistryDispatch -------------------------
(* Small instances of the Registry Hub's sequences for TLC. *)
EXTENDS RegistryDispatch, TLC

NoKey == "none"
T(kind) == [kind |-> kind, key |-> NoKey]
R(key) == [kind |-> "rgd", key |-> key]

(* {type} {rgd a} {if} {rgd b} {endif} *)
IncludeScript == <<T("act"), R("a"), T("if"), R("b"), T("endif")>>

(* {if} {wait} {type} {else} {set} {endif}: nothing is sent if it fails. *)
BranchScript == <<T("if"), T("wait"), T("act"), T("else"), T("set"), T("endif")>>

(* Two tasks: enough for late answers and numbers used again. *)
ShortScript == <<T("act"), T("wait"), T("act")>>

(* The last one is not a structure. *)
SomeScripts == {IncludeScript, BranchScript, ShortScript, <<T("else")>>}

(* "a" and "b" may include each other; a text of "b" opens a condition of  *)
(* its own, and another is not a structure.                                *)
IncludeTexts ==
  "a" :> {<<T("wait"), R("b"), T("act")>>, <<R("b"), R("b")>>}
  @@ "b" :> {<<R("a")>>, <<T("if"), T("wait"), T("endif"), T("set")>>, <<T("else"), T("endif"), T("if")>>}
  @@ NoKey :> {}

(* {rgd a} becomes at most itself and two {rgd b} of five tokens each, but  *)
(* below {rgd b} it becomes four; {rgd b} becomes itself and four others.   *)
IncludeWeight ==
  [t \in Token |->
     CASE t.kind # "rgd" \/ ~Nests(t) -> 1
       [] t.kind = "rgd" /\ Nests(t) /\ t.key = "a" -> IF "b" \in t.within THEN 4 ELSE 11
       [] t.kind = "rgd" /\ Nests(t) /\ t.key = "b" -> 5
       [] OTHER -> 1]

=============================================================================
