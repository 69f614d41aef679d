------------------------------ MODULE MCSlices ------------------------------
(* Bounded instance of Slicing: a menu of entry functions.  An entry is a   *)
(* dispatch over c (a code 'H' or 'F') in every spelling the scanner knows, *)
(* with bodies that return, nest, dispatch again on c or on a second axis d,*)
(* read and write FML fields, run SQL, open transactions; x is a flag that  *)
(* is no axis, r the request field c is normalised from.                    *)
EXTENDS Slicing

CONSTANT Menu   \* which entries this run slices

MCNames == <<"c", "d", "r", "v", "x">>
NoDefines == [n \in {} |-> Empty]
Codes == "CD_H" :> Chr("H") @@ "CD_F" :> Ident("FU") @@ "FU" :> Chr("F") @@ "CD_G" :> Chr("G")

\* Two values outside the domain for c and for r, one for d.
MCEnvs == {[c |-> p[1], r |-> p[2], d |-> d, x |-> x, v |-> "0",
            CD_H |-> "H", CD_F |-> "F", CD_G |-> "G"] :
             p \in {<<"H", "H">>, <<"F", "F">>, <<"G", "G">>, <<"Z", "Z">>, <<"Z", "G">>},
             d \in {"K", "L", "O"}, x \in {"0", "1"}}

---------------------------------------------------------------------------
c == Ident("c")
x == Ident("x")
Eq(n, v) == Cmp(Ident(n), "==", Chr(v))
Ne(n, v) == Cmp(Ident(n), "!=", Chr(v))
Same(n, v) == Cmp(Call("strcmp", <<Ident(n), Str(v)>>), "==", Num("0"))
Swap(v) == IF v = "H" THEN "F" ELSE "H"
\* The guards of one arm for value v, by the type of c: a char, a string.
CharGuards(v) ==
  {Eq("c", v), And(<<Eq("c", v), x>>), Or(<<Eq("c", v), x>>), Not(Ne("c", v)),
   And(<<Or(<<Eq("c", v), Eq("c", Swap(v))>>), Not(And(<<Ne("c", v), x>>))>>),
   And(<<Ne("c", Swap(v)), Eq("c", v)>>)}
TextGuards(v) ==
  {Same("c", v), Not(Call("strcmp", <<c, Str(v)>>)),
   And(<<x, Not(Call("strcmp", <<c, Str(v)>>))>>)}
CodeGuards(v) == {Cmp(c, "==", Ident("CD_" \o v)), And(<<Cmp(c, "==", Ident("CD_" \o v)), x>>)}

Does(n) == <<Stmt("call", <<n>>)>>
IfThen(p, b) == <<Opener("if", p)>> \o b \o <<Close>>
IfElse(p, b, e) == <<Opener("if", p)>> \o b \o <<Cuddled("else", Empty)>> \o e \o <<Close>>
Two(p, b, q, d) == <<Opener("if", p)>> \o b \o <<Cuddled("elseif", q)>> \o d \o <<Close>>
Else(b) == IF b = <<>> THEN <<>> ELSE <<Cuddled("else", Empty)>> \o b
Ladder(p, b, q, d, e) == Front(Two(p, b, q, d)) \o Else(e) \o <<Close>>
OnD(b) == Two(Eq("d", "K"), b, Eq("d", "L"), Does("f_l"))

Bodies == {Does("f_a"), Does("f_b") \o <<Return>>, IfThen(x, <<Return>>) \o Does("f_c"),
           IfElse(Eq("c", "H"), Does("f_h"), Does("f_o"))}
Entry(lines, defs) == [src |-> <<Stmt("decl", <<>>)>> \o lines \o Does("f_end"), defines |-> defs]

Spellings1 ==
  {Entry(Does("f_in") \o Ladder(p, Does("f_a"), q, Does("f_b"), e), NoDefines) :
     p \in CharGuards("H"), q \in CharGuards("F"), e \in {<<>>, Does("f_e") \o <<Return>>}}
  \cup {Entry(IfThen(x, <<Return>>) \o Does("f_in") \o Ladder(p, Does("f_a"), q, Does("f_b"), Does("f_e")), NoDefines) :
     p \in TextGuards("H"), q \in TextGuards("F")}
  \cup {Entry(Ladder(p, Does("f_a"), q, Does("f_b"), e), Codes) :
     p \in CodeGuards("H"), q \in CodeGuards("F"), e \in {<<>>, Does("f_e")}}
\* A third value, compared for inequality only.
Third ==
  {Entry(Front(Ladder(Eq("c", "H"), a, Eq("c", "F"), Does("f_b"), <<>>))
         \o <<Cuddled("elseif", p)>> \o Does("f_g") \o Else(e) \o <<Close>>, NoDefines) :
     a \in Bodies, e \in {<<>>, Does("f_e")}, p \in {Not(Ne("c", "G")), And(<<Not(Ne("c", "G")), x>>)}}
Nested == {Entry(Ladder(Eq("c", "H"), a, Eq("c", "F"), b, e), NoDefines) :
             a \in Bodies, b \in Bodies, e \in {<<>>} \cup Bodies}
\* Separate guards, a chain in a loop, and a code normalised from a field.
Apart ==
  {Entry(IfThen(Eq("c", "H"), a) \o Does("f_m") \o IfElse(Eq("c", "F"), b, Does("f_n")), NoDefines) :
     a \in Bodies, b \in Bodies}
  \cup {Entry(<<Opener("while", x)>> \o Ladder(Eq("c", "H"), a, Eq("c", "F"), b, Does("f_e")) \o <<Close>>,
              NoDefines) : a \in Bodies, b \in Bodies}
  \cup {Entry(Ladder(Same("r", "H"), <<Stmt("assign", <<"c", "H">>)>>,
                     Same("r", "F"), <<Stmt("assign", <<"c", "F">>)>>, Does("f_bad") \o <<Return>>)
              \o Does("f_m") \o Ladder(Eq("c", "H"), a, Eq("c", "F"), b, <<>>), NoDefines) :
     a \in Bodies, b \in Bodies}
\* A second axis inside the arms of the first.
Crossed ==
  {Entry(Ladder(Eq("c", "H"), a, Eq("c", "F"), b, e), NoDefines) :
     a \in {OnD(Does("f_k")), Does("f_a")},
     b \in {OnD(Does("f_k") \o <<Return>>), Does("f_b"),
            Ladder(Eq("d", "K"), Does("f_k"), Eq("d", "L"), Does("f_l"), Does("f_o"))},
     e \in {<<>>, OnD(Does("f_d")), Does("f_e")}}
\* No dispatch at all: the fallback slice is the whole entry.
Plain == {Entry(Does("f_in") \o IfElse(x, a, b), NoDefines) : a \in Bodies, b \in Bodies}
\* Queries, fields and transactions.
Sql(q, verb) == <<Stmt("sql", <<q, verb, "v">>)>>
Tx(b) == Does("tpbegin") \o b \o Does("tpcommit")
Send == <<Stmt("add", <<"OUT", "v">>)>>
Effects == {Tx(Sql("q1", "INSERT")) \o Send, Sql("q2", "SELECT") \o Send \o Sql("q3", "UPDATE"),
            <<Stmt("get", <<"IN", "v">>)>> \o Tx(IfThen(x, Sql("q1", "DELETE")) \o Sql("q2", "SELECT") \o Send),
            IfElse(x, <<Stmt("assign", <<"v", "a">>)>>, Send) \o <<Stmt("get", <<"IN2", "v">>)>> \o Send}
Working ==
  {Entry(<<Stmt("get", <<"IN0", "v">>)>> \o Does("f_in") \o Ladder(Eq("c", "H"), a, Eq("c", "F"), b, e) \o t, NoDefines) :
     a \in Effects, b \in Effects, e \in {<<>>, Send}, t \in {Send, Sql("q9", "UPDATE")}}

---------------------------------------------------------------------------
\* Entries on which the code does not do what its comments say.
UnbracedReturn ==
  {Entry(Does("f_in") \o Ladder(Eq("c", "H"), Does("f_a"), Eq("c", "F"), Does("f_b"), <<>>)
         \o <<Unbraced("if", Eq("c", "H")), Return>> \o Does("f_rest"), NoDefines)}
EntryBegin ==
  {Entry(Does("tpbegin") \o Ladder(Eq("c", "H"), Sql("q1", "INSERT"), Eq("c", "F"), Does("f_b"), <<>>)
         \o Does("tpcommit"), NoDefines)}
MixedSpellings ==
  {Entry(Does("f_in") \o Front(Ladder(Eq("c", "H"), Does("f_a"), Eq("c", "F"), Does("f_b"), <<>>))
         \o <<Cuddled("elseif", Cmp(c, "==", Ident("CD_G")))>> \o Does("f_g")
         \o <<Cuddled("else", Empty)>> \o Does("f_e") \o <<Close>>, Codes)}

MCPrograms == CASE Menu = "all" -> Spellings1 \cup Third \cup Nested \cup Apart \cup Crossed \cup Plain \cup Working
                [] Menu = "unbraced" -> UnbracedReturn
                [] Menu = "entry begin" -> EntryBegin
                [] Menu = "mixed spellings" -> MixedSpellings
MCFilters ==
  LET h == Eq("c", "H")  f == Eq("c", "F")  k == Eq("d", "K")  dflt == Eq("c", "default") IN
  {h, Ne("c", "H"), Or(<<h, f>>), Or(<<h, dflt>>), Not(Or(<<h, f>>)), Eq("c", "Q"),
   And(<<h, k>>), And(<<Ne("c", "F"), Ne("d", "L")>>), Not(And(<<h, k>>)),
   Or(<<And(<<h, k>>), And(<<f, Eq("d", "L")>>)>>), Or(<<And(<<h, k>>), And(<<dflt, k>>)>>),
   And(<<h, f>>), Cmp(Chr("F"), "==", c)}
=============================================================================
