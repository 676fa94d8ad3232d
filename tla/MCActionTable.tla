--------------------------- MODULE MCActionTable ---------------------------
(***************************************************************************)
(* A game for TLC. It has an action without arguments, two of which one     *)
(* name begins the other, and one whose argument does not fit a byte; its   *)
(* frame has a field of every kind the library treats differently.          *)
(***************************************************************************)
EXTENDS ActionTable

MCBytes == {-4, -1, 0, 1, 3}
Small == Within("BInt", 1, 4)
Mode == EnumOf(<<<<"a">>, <<"a", "b">>, <<"c">>>>)

Argument(name, storage, type) == [name |-> name, storage |-> storage, type |-> type]
MCActs == <<
    [name |-> <<"quit">>, arguments |-> <<>>],
    [name |-> <<"p">>,
     arguments |-> <<Argument(<<"at">>, "local", Small), Argument(<<"b">>, "frm", Scalar("Bool"))>>],
    [name |-> <<"p", "q">>,
     arguments |-> <<Argument(<<"host">>, "ctx", Small), Argument(<<"m">>, "local", Mode)>>],
    [name |-> <<"w">>, arguments |-> <<Argument(<<"n">>, "local", Within("BInt", 0, 9))>>]>>

MCFrameType == ClassOf(<<"Game">>,
    <<<<"resume_index">>, <<"over">>, <<"mode">>, <<"cell">>, <<"deck">>, <<"hand">>,
      <<"row">>, <<"pair">>, <<"share">>>>,
    <<Int64, Scalar("Bool"), Mode, AnyOf(<<Scalar("Bool"), Small>>),
      Wrapper("Hidden", Small), Wrapper("Owned", Scalar("Bool")),
      Repeated("Bounded", Scalar("Bool"), 2), Repeated("Array", Scalar("Bool"), 2),
      Within("Linear", 0, 3)>>)

(* Nothing is possible once the game is over. A wide argument is played in  *)
(* the lower half of a byte only, the values the bytes give back.           *)
MCCan(i, args, f) ==
    /\ ~f[2]
    /\ i = 2 => args[2] \/ f[7] # <<>>
    /\ i = 4 => args[1] < Base \div 2 /\ f[3] # 1

Counted(f) == [f EXCEPT ![1] = @ + 1]
MCDoes(i, args, f) ==
    CASE i = 1 -> [Counted(f) EXCEPT ![2] = TRUE, ![6][2] = -1]
      [] i = 2 -> [Counted(f) EXCEPT ![4] = IF args[2] THEN <<2, args[1]>> ELSE <<1, TRUE>>,
                                     ![7] = IF Len(@) < 2 THEN Append(@, args[2]) ELSE @,
                                     ![5] = args[1]]
      [] i = 3 -> [Counted(f) EXCEPT ![3] = args[1], ![8][1] = ~@,
                                     ![6] = <<args[1] = 2, args[1]>>]
      [] i = 4 -> [Counted(f) EXCEPT ![9] = args[1] % 3, ![8] = <<@[2], @[1]>>]

=============================================================================
