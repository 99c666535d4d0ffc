------------------------------ MODULE MCNetEdit ------------------------------
EXTENDS NetEdit, TLC

\* R: a library part with two pins.  S: an authored submodule with one port
\* on two inner pins and one optional port.
MCDeclares ==
    "R" :> [ios |-> {"p", "q"}, optional |-> {}, computed |-> {}, configs |-> {"v"},
            needed |-> {"v"}, components |-> {("x" :> "p") @@ ("y" :> "q")},
            inner |-> NoPins, evaluates |-> TRUE]
    @@
    "S" :> [ios |-> {"p", "q"}, optional |-> {"q"}, computed |-> {}, configs |-> {},
            needed |-> {}, components |-> {},
            inner |-> ("x" :> "p") @@ ("y" :> "p"), evaluates |-> TRUE]

\* A dash in a name becomes an underscore in its identifier.
MCVarOf == [n \in {"N-1", "M", "SW", "R-1_p", "R-1_q", "R2_p", "R2_q"} |->
               CASE n = "N-1" -> "N_1" [] n = "R-1_p" -> "R_1_p" [] n = "R-1_q" -> "R_1_q"
                 [] OTHER -> n]
MCNames == DOMAIN MCVarOf
MCVars == {MCVarOf[n] : n \in MCNames} \union {"R", "S"}
MCBinders == {[kind |-> "for", binds |-> "R2_q"]}
MCBindOf == [m \in {"R", "S"} |-> m]
MCPlaceholderOf == ("R-1" :> [p |-> "R-1_p", q |-> "R-1_q"])
                   @@ ("R2" :> [p |-> "R2_p", q |-> "R2_q"])

Blank == [net |-> [v \in Vars |-> None], named |-> {}, mod |-> [i \in Insts |-> None],
          args |-> [i \in Insts |-> [a \in Keys |-> NoArg]], above |-> {}, binds |-> {},
          uses |-> {}, keys |-> {}]

Call(f, i, m) == [AddCall(f, i, m, PlacedArgs(i, m, Attrs \intersect Declares[m].needed))
                     EXCEPT !.binds = @ \union {m}]

\* As an author writes them: definitions first, then R-1 and R2.
Written(f) == [f EXCEPT !.above = (Defined(f) \X PlacedIn(f))
                                  \union {x \in {<<"R-1", "R2">>} : {"R-1", "R2"} \subseteq PlacedIn(f)}]

\* Two parts, positioned, on placeholders.
TwoParts == [Written(Call(Call(Blank, "R-1", "R"), "R2", "R"))
                EXCEPT !.keys = {<<"R-1", "comp">>, <<"R2", "comp">>}]
\* A submodule and a part, each on a net of its own.
PartAndModule ==
    LET f == Call(Call(Define(Define(Blank, "N-1", {}), "M", {}), "R-1", "S"), "R2", "R")
    IN  Written(SetArg(SetArg(SetArg(f, "R-1", "p", Var("N_1")), "R2", "p", Var("M")),
                       "R2", "q", Var("M")))
\* A net without a literal, used by a part and, in one board, elsewhere.
Unspelled ==
    LET f == [Define(Blank, "SW", {}) EXCEPT !.named = {}, !.keys = {<<"SW", "sym">>}]
    IN  Written(SetArg(Call(f, "R-1", "R"), "R-1", "p", Var("SW")))

MCBoards == {Blank, TwoParts, PartAndModule, Unspelled, [Unspelled EXCEPT !.uses = {"SW"}]}
=============================================================================
