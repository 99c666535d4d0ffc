------------------------------ MODULE MCDrawing ------------------------------
(* Two chips, a resistor in each of three wrappers, two of those wrappers in a *)
(* module of their own.                                                       *)
EXTENDS Drawing

CONSTANTS U, J, R1, R2, R3

MCComps == {U, J, R1, R2, R3}
MCTree == [root |-> <<J, U, "M", "W1">>, M |-> <<"W2", "W3">>,
           W1 |-> <<R1>>, W2 |-> <<R2>>, W3 |-> <<R3>>]
MCPinNames == [c \in MCComps |-> IF c = U THEN <<"1", "2", "3">> ELSE <<"1", "2">>]
MCPortOrder == <<<<J, "1">>, <<J, "2">>, <<R2, "1">>, <<R2, "2">>, <<R3, "1">>, <<R3, "2">>,
                 <<U, "1">>, <<U, "2">>, <<U, "3">>, <<R1, "1">>, <<R1, "2">>>>
MCKind == [G |-> "Ground", S |-> "Net", T |-> "Net", V |-> "Power"]
MCNetOrder == <<"G", "S", "T", "V">>
MCLabelLen == [n \in {"G", "S", "T", "V"} |-> 48]

\* The parts in columns, and around a chip.
Columns ==
    [at |-> (U :> <<0, 0>> @@ J :> <<432, 12>> @@ R1 :> <<216, -180>>
               @@ R2 :> <<216, 240>> @@ R3 :> <<432, 240>>),
     box |-> [M  |-> [lo |-> <<84, 96>>, hi |-> <<564, 360>>],
              W1 |-> [lo |-> <<120, -320>>, hi |-> <<320, -80>>],
              W2 |-> [lo |-> <<84, 96>>, hi |-> <<320, 360>>],
              W3 |-> [lo |-> <<330, 96>>, hi |-> <<564, 360>>]]]
Ring ==
    [at |-> (U :> <<0, 0>> @@ J :> <<300, 240>> @@ R1 :> <<300, 0>>
               @@ R2 :> <<-300, 120>> @@ R3 :> <<0, 300>>),
     box |-> [M  |-> [lo |-> <<-420, 0>>, hi |-> <<120, 420>>],
              W1 |-> [lo |-> <<180, -120>>, hi |-> <<420, 120>>],
              W2 |-> [lo |-> <<-420, 0>>, hi |-> <<-180, 240>>],
              W3 |-> [lo |-> <<-120, 180>>, hi |-> <<120, 420>>]]]
MCPackings == {Columns, Ring}
MCSpots == {<<216, 60>>, <<480, -120>>}

\* Two boards: a divider R1, R2 on S; and R1 in the flow with R2 pulling T up, where the
\* decoupler R3 is still to come.
Divider ==
    <<U, "1">> :> "S" @@ <<U, "2">> :> "T" @@ <<U, "3">> :> "V"
    @@ <<J, "1">> :> "S" @@ <<J, "2">> :> "G"
    @@ <<R1, "1">> :> "V" @@ <<R1, "2">> :> "S"
    @@ <<R2, "1">> :> "S" @@ <<R2, "2">> :> "G"
    @@ <<R3, "1">> :> "T" @@ <<R3, "2">> :> "S"
PullUp ==
    <<U, "1">> :> "S" @@ <<U, "2">> :> "G" @@ <<U, "3">> :> "T"
    @@ <<J, "1">> :> "T" @@ <<J, "2">> :> "S"
    @@ <<R1, "1">> :> "S" @@ <<R1, "2">> :> "T"
    @@ <<R2, "1">> :> "V" @@ <<R2, "2">> :> "T"
    @@ <<R3, "1">> :> "V" @@ <<R3, "2">> :> "G"

Unplaced == [c \in MCComps |-> None]
MCBoards ==
    {[parts |-> MCComps, net |-> Divider, authored |-> Unplaced, packed |-> Columns],
     [parts |-> MCComps \ {R3}, net |-> PullUp, authored |-> Unplaced, packed |-> Ring]}

=============================================================================
