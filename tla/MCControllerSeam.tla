-------------------------- MODULE MCControllerSeam --------------------------
(***************************************************************************)
(* Branches put together from pieces: up to three of the view pieces in    *)
(* every order, for the passes; of the body pieces, each at most once, for *)
(* the gates, as a branch with its census (a fragment or the else of its   *)
(* chain: no condition of its own) and as a slice with its guards.         *)
(***************************************************************************)
EXTENDS ControllerSeam, TLC

CONSTANT Menu    \* which units: "all", or one that breaks a property

Is(t, v) == Cmp(Ident(t), "==", Chr(v))
ErrLeg(code) == <<ErrLog(code), ErrAdd("c_errmsg"), Ret("fail")>>
Unpack == <<InitProbes, Get("F_USER", "c_user"), Ferr, Get("F_FLAG", "c_flag"), Ferr,
            Probe(0, <<Arm(2, "c_flag", "N")>>, FALSE)>>
UnpackOne == <<InitProbes, Get("F_MODE", "c_mode"), Ferr, Probe(1, <<Arm(1, "c_mode", "N")>>, FALSE)>>
UnpackRaw == <<InitProbes, Get("F_RAW", "c_raw"), Ferr, Get("F_MODE", "c_mode"), Ferr,
               Probe(0, <<Arm(2, "c_mode", "N")>>, FALSE)>>
Plumbing == <<Decl("c_user"), InitProbes, Get("F_USER", "c_user"), Ferr, Probe(0, <<>>, TRUE)>>
Session == <<Ssn("l_sssn"), If(Failed("l_sssn"), ErrLeg("S1"), <<>>)>>
SessionSent == Session \o <<Add("F_SSN", "l_sssn")>>
Either == <<If(Is("c_flag", "Y"), ErrLeg("S2"), <<Sql("q1")>>)>>
TextLeg == <<If(Is("c_mode", "N"), <<ErrAdd("c_user"), Ret("fail")>>, <<>>)>>
Tx == <<Decl("h"), Begin("h"), If(Failed("h"), ErrLeg("S3"), <<>>), Sql("u1"),
        If(Is("c_flag", "Y"), <<Abort>> \o ErrLeg("S4"), <<>>), Sql("u2"), Commit("braced")>>
TxBare == <<Begin(""), Sql("u1"), Commit("none")>>
Helpers == <<CopyName, Fn("fn_map", <<"c_ServiceName", "c_user", "c_errmsg">>),
             Fn("fn_user", <<"c_user_id", "c_flag", "c_errmsg">>), Fn("fn_lib", <<"c_ServiceName", "c_user">>)>>
Defined == <<If(Cmp(Ident("c_flag"), "==", Ident("RISK")), <<Sql("q1")>>, <<>>)>>
Query == <<Comment, Sql("q1"), Add("F_OUT", "c_user"), Scaffold>>
ViewPieces == {Unpack, UnpackOne, UnpackRaw, Plumbing, Session, SessionSent, Either, TextLeg, Tx,
               TxBare, Helpers, Defined, Query}

BodyUnpack == <<InitProbes, Get("F_FLAG", "c_flag"), Ferr, Get("F_MODE", "c_mode"), Ferr,
                Probe(0, <<>>, FALSE)>>
OnFlag == <<If(Is("c_flag", "Y"), <<Sql("q1"), Add("F_OUT", "c_user")>>, <<>>)>>
OnMode == <<If(Is("c_mode", "N"), <<Set("c_kind", "1"), Sql("r1")>>, ErrLeg("S5"))>>
OnPresence == <<If(Cmp(Call("Foccur32", <<Ident("buf"), Ident("F_KIND")>>), ">", Num("0")),
                   <<Sql("q2")>>, <<>>)>>
BodyPieces == {OnFlag, OnMode, OnPresence, TxBare, Helpers}
Mixed == And(<<Is("c_flag", "Y"), Is("c_mode", "N")>>)
OnBoth == <<If(Mixed, <<Sql("q2")>>, <<>>)>>
SlicePieces == {OnBoth, TxBare, Helpers, <<Sql("q1")>>}

Names == {"c_user", "c_flag", "c_mode", "c_raw", "c_kind", "c_user_id", "c_errmsg", "c_ServiceName",
          "l_sssn", "h", "buf"}
Fields == {"F_USER", "F_FLAG", "F_MODE", "F_RAW", "F_KIND"}
World(flag, mode, kind) ==
  [x \in Names \cup Fields \cup {"RISK", ""} |->
     CASE x = "F_FLAG" -> flag [] x = "F_MODE" -> mode [] x = "F_KIND" -> kind [] x = "F_RAW" -> "5"
       [] x = "F_USER" -> "7" [] x = "c_user_id" -> "8" [] x = "RISK" -> "Y" [] OTHER -> "0"]
Planned(name, tx, shape, args) == [name |-> name, tx |-> tx, shape |-> shape, args |-> args]
Calls == [q1 |-> Planned("GetOne", "", "single", <<"c_user", "c_flag">>),
          q2 |-> Planned("GetTwo", "", "single", <<"c_user">>),
          r1 |-> Planned("ListOnes", "", "rows", <<"c_kind">>),
          u1 |-> Planned("SaveOne", "tx", "error", <<"c_user">>),
          u2 |-> Planned("SaveTwo", "tx", "error", <<"c_flag">>)]
Unit(b, qs) ==
  [branch |-> b \o <<Ret("ok")>>, calls |-> [q \in qs |-> Calls[q]],
   reqMap |-> Fields \ {"F_RAW"}, fields |-> Fields, stubs |-> {"fn_lib"},
   helpers |-> [fn_map |-> <<"c_ServiceName", "c_user", "c_errmsg">>,
                fn_user |-> <<"c_user_id", "c_flag", "c_errmsg">>],
   defines |-> [RISK |-> Chr("Y")], draft |-> FALSE, header |-> {}, guards |-> {}, axis |-> "", arm |-> "",
   replies |-> "none",
   worlds |-> {World(f, m, k) : f \in {"0", "Y", "N"}, m \in {"0", "N", "M"}, k \in {"0", "1"}}]
QueriesOf(b) == {n.q : n \in {m \in All(b) : m.k = "sql"}}
ViewUnit(b) == [Unit(b, DOMAIN Calls) EXCEPT !.worlds = {w \in @ : w["F_KIND"] = "0"}]
BodyUnit(b) == [Unit(b, QueriesOf(b)) EXCEPT !.draft = TRUE, !.replies = "all"]
SliceUnit(b) ==
  [Unit(b, QueriesOf(b)) EXCEPT !.replies = "all", !.axis = "c_flag", !.arm = "Y",
   !.guards = IF \E n \in All(b) : n.k = "if" /\ n.cond = Mixed
              THEN {[cond |-> Is("c_mode", "N"), alt |-> Mixed]} ELSE {},
   !.worlds = {w \in @ : w["F_FLAG"] = "Y"}]

\* Up to n pieces, each at most once.
Orders(pieces, n) == {FlattenSeq(o) : o \in UNION {{s \in [1..k -> pieces] : IsInjective(s)} : k \in 1..n}}
ViewMenu == {ViewUnit(FlattenSeq(s)) : s \in UNION {[1..k -> ViewPieces] : k \in 1..2}}
            \cup {ViewUnit(b) : b \in Orders(ViewPieces, 3)}
BodyMenu == {BodyUnit(BodyUnpack \o b) : b \in Orders(BodyPieces, 3)}
SliceMenu == {SliceUnit(BodyUnpack \o b) : b \in Orders(SlicePieces, 3)}
\* A query of the branch nobody planned a method for.
Unplanned == {[Unit(Query, {}) EXCEPT !.replies = "none"]}

\* Units that break a property (README, section 6).
Odd(name) ==
  CASE name = "bare guard" -> {ViewUnit(<<Ssn("l_sssn"), BareIf(Failed("l_sssn"), <<Ret("fail")>>)>> \o Either)}
    [] name = "bare log" -> {ViewUnit(<<BareIf(Is("c_flag", "Y"), <<Scaffold>>)>> \o Query)}
    [] name = "unprobed read" -> {ViewUnit(<<InitProbes, BareGet("F_RAW", "c_raw"), BareGet("F_USER", "c_user"),
                                            Get("F_FLAG", "c_flag"), Ferr, Probe(1, <<Arm(1, "c_flag", "N")>>, FALSE)>> \o Query)}
    [] name = "log before fallback" -> {ViewUnit(<<InitProbes, Get("F_FLAG", "c_flag"), Ferr,
                                            Probe(1, <<Arm(1, "c_flag", "N")>>, TRUE)>> \o Query)}
    [] name = "log apart" -> {ViewUnit(BodyUnpack \o <<If(Is("c_flag", "Y"), <<ErrLog("S6"), Set("c_kind", "1"), ErrAdd("c_errmsg"), Ret("fail")>>, <<>>)>>)}
    [] name = "abort goes on" -> {ViewUnit(BodyUnpack \o <<Begin("h"), Sql("u1"), If(Is("c_flag", "Y"), <<Abort>>, <<Commit("none")>>)>>)}
    [] name = "write after abort" -> {ViewUnit(BodyUnpack \o <<Begin("h"), Sql("u1"), If(Is("c_flag", "Y"), <<Abort, Sql("u2"), Ret("fail")>>, <<>>), Commit("none")>>)}
    [] name = "renamed argument" -> {ViewUnit(<<Fn("fn_map", <<"c_ServiceName", "c_user_id", "c_errmsg">>)>>)}
    [] name = "plumbing guard" -> {BodyUnit(BodyUnpack \o <<Begin("h"), If(Failed("h"), ErrLeg("S3"), <<>>), Sql("u1"), Commit("none")>>)}
    [] name = "own header" -> {[BodyUnit(BodyUnpack \o OnMode) EXCEPT !.header = {Is("c_flag", "Y")},
                                 !.worlds = {w \in @ : w["F_FLAG"] = "Y"}]}
    [] name = "called twice" -> {BodyUnit(BodyUnpack \o OnFlag \o OnMode \o <<Sql("r1")>>)}
    [] name = "slice condition" -> {SliceUnit(BodyUnpack \o OnMode)}
    [] OTHER -> {}
MCUnits == IF Menu = "all" THEN ViewMenu \cup BodyMenu \cup SliceMenu \cup Unplanned ELSE Odd(Menu)
=============================================================================
