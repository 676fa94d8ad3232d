---------------------------- MODULE ActionTable ----------------------------
(***************************************************************************)
(* What a host does with the table of all actions of a game (action.rl):    *)
(* it plays the ones the mask of valid actions admits, saves what it played *)
(* as bytes, replays the bytes on a fresh frame, lists them, writes the     *)
(* list as text, reads the text back and applies what it read. A step is    *)
(* one iteration of one of the loops of the library.                        *)
(*                                                                         *)
(* The game is a parameter: its act statements, the type of the frame, and  *)
(* what an action requires and does. Bytes also come from elsewhere, a file *)
(* or a fuzzer: any sequence of up to Longest of SomeBytes.                 *)
(***************************************************************************)
EXTENDS Encoding, FiniteSets

CONSTANTS Acts,            \* the act statements, in their order
          FrameType,       \* the class of the frame
          Can(_, _, _),    \* Can(i, fields, frame): the precondition of action i
          Does(_, _, _),   \* Does(i, fields, frame): the frame after action i
          MaxActions,      \* a game is at most this long
          SomeBytes, Longest

VARIABLES phase,
          frame,           \* of the game played, replayed or applied
          played,          \* the actions played, or NoGame
          outcome,         \* the frame the game, or the first replay, ended in
          input, readBytes,
          decoded,         \* what the replay decoded, possible or not
          listed,
          text, textIndex,
          readBack         \* what the text was read as

vars == <<phase, frame, played, outcome, input, readBytes, decoded, listed,
          text, textIndex, readBack>>

NoGame == <<"no game">>

(* The class of an act has its arguments for fields, but for the ones the   *)
(* host passes at every call.                                              *)
StatementType(act) ==
    LET kept == SelectSeq(act.arguments, LAMBDA a : a.storage # "ctx")
    IN ClassOf(act.name, [i \in DOMAIN kept |-> kept[i].name],
                         [i \in DOMAIN kept |-> kept[i].type])

ActionTypes == [i \in DOMAIN Acts |-> StatementType(Acts[i])]
AnyAction == AnyOf(ActionTypes)
Fresh == Default(FrameType)
AllActions == Enumerate(AnyAction)

(* The function the compiler makes for the alternative of all actions: it   *)
(* asks, and calls, the function of the class that is active.               *)
CanApply(action, f) ==
    \E i \in DOMAIN ActionTypes : action[1] = i /\ Can(i, action[2], f)

Apply(action, f) == Does(action[1], action[2], f)

ValidActions(actions, f) ==
    [i \in DOMAIN actions |-> IF CanApply(actions[i], f) THEN 1 ELSE 0]

Saved(actions) == FlattenSeq([i \in DOMAIN actions |-> Bytes(AnyAction, actions[i])])

(* A line for each action, after comment lines if there are any.            *)
Comment == <<"#", "word", "\n">>
Written(actions, comments) ==
    FlattenSeq([i \in DOMAIN actions |->
        FlattenSeq(Copies(Comment, comments)) \o Text(AnyAction, actions[i]) \o <<"\n">>])

(* Below the range of an enum there is no name to write.                    *)
RECURSIVE InRange(_, _)
InRange(t, v) ==
    CASE t.kind \in {"Enum"} -> v >= 0
      [] t.kind \in {"BInt", "Linear"} -> v >= t.lo
      [] t.kind = "Alternative" -> InRange(t.types[v[1]], v[2])
      [] t.kind = "Class" -> \A i \in DOMAIN v : InRange(Members(t)[i], v[i])
      [] OTHER -> TRUE

-----------------------------------------------------------------------------

TypeOK ==
    /\ phase \in {"play", "execute", "list", "read", "apply", "done"}
    /\ readBytes \in 0..Len(input)
    /\ textIndex \in 0..Len(text)

(* An input that no game wrote.                                            *)
Foreign == UNION {[1..n -> SomeBytes] : n \in 0..Longest}

Init ==
    /\ frame = Fresh
    /\ \/ phase = "play" /\ played = <<>> /\ input = <<>>
       \/ phase = "execute" /\ played = NoGame /\ input \in Foreign
    /\ outcome = Fresh
    /\ readBytes = 0 /\ decoded = <<>> /\ listed = <<>>
    /\ text = <<>> /\ textIndex = 0 /\ readBack = <<>>

(* The host chooses an index the mask admits.                               *)
Play ==
    /\ phase = "play" /\ Len(played) < MaxActions
    /\ \E i \in DOMAIN AllActions :
         /\ ValidActions(AllActions, frame)[i] = 1
         /\ frame' = Apply(AllActions[i], frame)
         /\ played' = Append(played, AllActions[i])
    /\ outcome' = frame'
    /\ UNCHANGED <<phase, input, readBytes, decoded, listed, text, textIndex, readBack>>

Save ==
    /\ phase = "play"
    /\ phase' = "execute"
    /\ input' = Saved(played)
    /\ frame' = Fresh
    /\ UNCHANGED <<played, outcome, readBytes, decoded, listed, text, textIndex, readBack>>

(* parse_and_execute.                                                      *)
ExecuteOne ==
    /\ phase = "execute" /\ readBytes + IntBytes <= Len(input)
    /\ LET r == Parse(AnyAction, Default(AnyAction), input, readBytes)
       IN /\ readBytes' = r.index
          /\ decoded' = IF r.ok THEN Append(decoded, r.value) ELSE decoded
          /\ frame' = IF r.ok /\ CanApply(r.value, frame) THEN Apply(r.value, frame) ELSE frame
    /\ UNCHANGED <<phase, played, outcome, input, listed, text, textIndex, readBack>>

ExecuteEnd ==
    /\ phase = "execute" /\ readBytes + IntBytes > Len(input)
    /\ phase' = "list" /\ readBytes' = 0
    /\ outcome' = IF played = NoGame THEN frame ELSE outcome
    /\ UNCHANGED <<frame, played, input, decoded, listed, text, textIndex, readBack>>

(* parse_actions on bytes, whose loop has a guard of its own.               *)
ListOne ==
    /\ phase = "list" /\ readBytes + IntBytes < Len(input)
    /\ LET r == Parse(AnyAction, Default(AnyAction), input, readBytes)
       IN /\ readBytes' = r.index
          /\ listed' = IF r.ok THEN Append(listed, r.value) ELSE listed
    /\ UNCHANGED <<phase, frame, played, outcome, input, decoded, text, textIndex, readBack>>

(* _consume_comment stops in front of the end of the line.                  *)
RECURSIVE AfterLine(_, _)
AfterLine(s, index) ==
    IF Symbol(s, index) \in {"\n", "end"} THEN index ELSE AfterLine(s, index + 1)

ConsumeComment(s, index) ==
    LET start == AfterSpace(s, index)
    IN IF Symbol(s, start) = "#" THEN AfterLine(s, start) ELSE start

(* The list is written down, with at most one comment line before an        *)
(* action, and parse_actions on text begins with the first comment.         *)
ListEnd ==
    /\ phase = "list" /\ readBytes + IntBytes >= Len(input)
    /\ IF \A i \in DOMAIN listed : InRange(AnyAction, listed[i])
       THEN /\ phase' = "read"
            /\ \E comments \in 0..1 : text' = Written(listed, comments)
            /\ textIndex' = ConsumeComment(text', 0)
       ELSE phase' = "done" /\ UNCHANGED <<text, textIndex>>
    /\ UNCHANGED <<frame, played, outcome, input, readBytes, decoded, listed, readBack>>

(* parse_actions on text: up to the first action that does not parse, which *)
(* leaves the position to nobody.                                          *)
ReadOne ==
    /\ phase = "read"
    /\ LET r == FromText(AnyAction, Default(AnyAction), text, textIndex)
       IN IF r.ok
          THEN /\ textIndex' = ConsumeComment(text, r.index)
               /\ readBack' = Append(readBack, r.value)
               /\ UNCHANGED <<phase, frame>>
          ELSE /\ phase' = "apply" /\ frame' = Fresh
               /\ UNCHANGED <<textIndex, readBack>>
    /\ UNCHANGED <<played, outcome, input, readBytes, decoded, listed, text>>

(* apply on a vector: up to the first action that is not possible.          *)
RECURSIVE Possible(_, _)
Possible(actions, f) ==
    IF actions = <<>> \/ ~CanApply(Head(actions), f) THEN f
    ELSE Possible(Tail(actions), Apply(Head(actions), f))

ApplyAll ==
    /\ phase = "apply"
    /\ phase' = "done" /\ frame' = Possible(readBack, Fresh)
    /\ UNCHANGED <<played, outcome, input, readBytes, decoded, listed, text, textIndex, readBack>>

Done == phase = "done" /\ UNCHANGED vars

Next ==
    \/ Play \/ Save \/ ExecuteOne \/ ExecuteEnd \/ ListOne \/ ListEnd
    \/ ReadOne \/ ApplyAll \/ Done

Spec == Init /\ [][Next]_vars

-----------------------------------------------------------------------------
(* Properties.                                                             *)

(* An action of which only its index is in the bytes.                      *)
Bare(action) == Len(Bytes(AnyAction, action)) = IntBytes

(* The list leaves out the last action that was executed when nothing is in *)
(* the bytes behind its index, and no other.                               *)
LeftOut == IF Len(listed) < Len(decoded) THEN 1 ELSE 0

(* A game is the same game however it is passed on: the bytes of what was   *)
(* played replay to the frame the game ended in, the list names the actions *)
(* that were decoded in their order, and applying what was read from the    *)
(* text of the list ends in that frame too.                                *)
(* action.rl:28-50: apply, parse_and_execute and parse_actions.            *)
SameGame ==
    /\ phase \in {"list", "read"} /\ played # NoGame => frame = outcome /\ decoded = played
    /\ phase = "read" =>
         /\ listed = SubSeq(decoded, 1, Len(decoded) - LeftOut)
         /\ LeftOut = 1 => Bare(Last(decoded))
    /\ phase = "done" /\ played # NoGame /\ LeftOut = 0 => frame = outcome

(* Whatever the bytes are, an action decoded from them is one the host can  *)
(* choose, at exactly one place of the list of all actions, provided no     *)
(* value in it is below its range.                                         *)
(* bounded_arg.rl:144-158 and to_byte_vector.rl:151-189 against            *)
(* action.rl:172-189 and 259-290.                                          *)
OnlyListed ==
    \A i \in DOMAIN decoded : InRange(AnyAction, decoded[i]) =>
        Cardinality({j \in DOMAIN AllActions : AllActions[j] = decoded[i]}) = 1

(* A list of actions written as text, with or without a comment before each *)
(* of them, reads back as that list.                                       *)
(* action.rl:52-68 and string.rl:340-367 against string.rl:281-308.        *)
TextReadsBack == phase \in {"apply", "done"} /\ text # <<>> => readBack = listed

(* What of a value a player may know.                                      *)
RECURSIVE Visible(_, _, _)
Visible(t, v, observer) ==
    CASE t.kind \in {"Int", "Hidden", "Vector"} -> <<>>
      [] t.kind = "Owned" -> IF v[2] \in {observer, -1} THEN Visible(t.of, v[1], observer) ELSE <<>>
      [] t.kind \in {"Array", "Bounded"} -> [i \in DOMAIN v |-> Visible(t.of, v[i], observer)]
      [] t.kind = "Alternative" -> <<v[1], Visible(t.types[v[1]], v[2], observer)>>
      [] t.kind = "Class" -> [i \in DOMAIN v |-> Visible(Members(t)[i], v[i], observer)]
      [] OTHER -> v

Players == {0, 1}
Full(f, observer) == Len(Tensor(FrameType, f, observer)) = TensorSize(FrameType)

(* The tensor of a frame never outgrows the size that was announced for it, *)
(* and a learner sees in it every change of what it may know, while nothing *)
(* is written short of its size.                                           *)
(* action.rl:300-442: size_as_observation_tensor against                   *)
(* write_in_observation_tensor.                                            *)
TensorShowsChanges ==
    phase \in {"play", "execute"} =>
    \A observer \in Players :
        /\ Len(Tensor(FrameType, frame, observer)) <= TensorSize(FrameType)
        /\ Full(frame, observer) =>
             \A i \in DOMAIN AllActions :
                 LET after == Apply(AllActions[i], frame)
                 IN CanApply(AllActions[i], frame) /\ Full(after, observer)
                      /\ Visible(FrameType, after, observer) # Visible(FrameType, frame, observer)
                    => Tensor(FrameType, after, observer) # Tensor(FrameType, frame, observer)

(* A frame written as bytes and read into a fresh one is the frame again,   *)
(* and every byte is read.                                                 *)
(* to_byte_vector.rl:193: from_byte_vector "converts the bytes in `input`   *)
(* into a T and assigns the value to `result`".                            *)
Restored ==
    LET bytes == Bytes(FrameType, frame)
    IN Parse(FrameType, Fresh, bytes, 0) = Read(TRUE, frame, Len(bytes))

(* However the bytes are, an iteration of parse_and_execute or of           *)
(* parse_actions goes past at least one of them, so that the loops end.     *)
(* action.rl:38 and 46 leave the position to what they call.               *)
Advances ==
    \/ phase = "execute" /\ readBytes + IntBytes <= Len(input)
    \/ phase = "list" /\ readBytes + IntBytes < Len(input)
    => Parse(AnyAction, Default(AnyAction), input, readBytes).index > readBytes

=============================================================================
