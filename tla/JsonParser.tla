----------------------------- MODULE JsonParser -----------------------------
(***************************************************************************)
(* What decides whether a request is JSON: the parser of json.hpp with the *)
(* SAX handler that builds the value.  parse() throws when the tokens are  *)
(* no document, and nothing in the server catches that.                    *)
(*                                                                         *)
(* sax_parse_internal() is one loop over the tokens of the lexer, without  *)
(* recursion: states remembers the arrays and objects that are open, and   *)
(* the handler's ref_stack where their values are.  One action per token   *)
(* and place in the loop; expects says which get_token() comes next.       *)
(***************************************************************************)
EXTENDS Integers, SequencesExt

CONSTANT MaxTokens    (* bound: tokens of the text *)

ASSUME MaxTokensAssumption == MaxTokens \in Nat

(* token_type: "scalar" is a number or a literal, "overflow" a number that *)
(* no double can hold (1e999), "error" what the lexer cannot read, "end"   *)
(* the end of the input or a zero byte.                                    *)
Scalars == {"string", "scalar", "overflow"}
Tokens == {"{", "}", "[", "]", ":", ",", "error", "end"} \cup Scalars

Containers == {"array", "object"}

Places == {"value", "firstElement", "firstKey", "firstColon", "key", "colon",
           "arrayNext", "objectNext", "end", "accepted", "failed"}

VARIABLES
    text,             (* the tokens got so far                              *)
    expects,          (* the place in the loop                              *)
    states,           (* the stack of what is open                          *)
    ref_stack,        (* the handler's stack: the values being filled       *)
    object_element,   (* the object in which the next member's value goes   *)
    made              (* how many arrays and objects have been made         *)

vars == <<text, expects, states, ref_stack, object_element, made>>

None == 0

Init ==
    /\ text = <<>>
    /\ expects = "value"
    /\ states = <<>> /\ ref_stack = <<>>
    /\ object_element = None /\ made = 0

GetToken(token) ==
    /\ Len(text) < MaxTokens
    /\ text' = Append(text, token)

-----------------------------------------------------------------------------
(* A value begins, at the head of the loop *)

(* The first token in an array that is no "]" is looked at again as the    *)
(* beginning of a value, after the array has been pushed.                  *)
AtValue ==
    \/ expects = "value" /\ UNCHANGED states
    \/ expects = "firstElement" /\ states' = Append(states, "array")

(* start_object, start_array: handle_value makes the value. *)
Push(kind) ==
    /\ made' = made + 1
    /\ ref_stack' = Append(ref_stack, [kind |-> kind, id |-> made + 1])
    /\ UNCHANGED object_element

BeginObject ==
    /\ GetToken("{") /\ AtValue
    /\ Push("object")
    /\ expects' = "firstKey"

BeginArray ==
    /\ GetToken("[") /\ AtValue
    /\ Push("array")
    /\ expects' = "firstElement"

(* The state evaluation: what may follow a value inside what is open. *)
AfterValue(open) ==
    IF open = <<>> THEN "end"
    ELSE IF Last(open) = "array" THEN "arrayNext" ELSE "objectNext"

Scalar ==
    /\ \E token \in Scalars \ {"overflow"} : GetToken(token)
    /\ AtValue
    /\ expects' = AfterValue(states')
    /\ UNCHANGED <<ref_stack, object_element, made>>

(* out_of_range 406: strtod() returned an infinity. *)
NumberOverflow ==
    /\ GetToken("overflow")
    /\ AtValue
    /\ expects' = "failed"
    /\ UNCHANGED <<ref_stack, object_element, made>>

-----------------------------------------------------------------------------
(* Members, elements and their ends *)

(* key(): the member is made in the object on top. *)
Key ==
    /\ expects \in {"firstKey", "key"}
    /\ GetToken("string")
    /\ object_element' = Last(ref_stack).id
    /\ expects' = IF expects = "firstKey" THEN "firstColon" ELSE "colon"
    /\ UNCHANGED <<states, ref_stack, made>>

(* Mutant of Colon: each member pushes the object. *)
ColonPushing ==
    /\ expects \in {"firstColon", "colon"}
    /\ GetToken(":")
    /\ states' = Append(states, "object")
    /\ expects' = "value"
    /\ UNCHANGED <<ref_stack, object_element, made>>

(* The object is pushed with its first member. *)
Colon ==
    /\ expects \in {"firstColon", "colon"}
    /\ GetToken(":")
    /\ states' = IF expects = "firstColon" THEN Append(states, "object") ELSE states
    /\ expects' = "value"
    /\ UNCHANGED <<ref_stack, object_element, made>>

(* Mutant of Comma: the same in an object as in an array. *)
CommaThenValue ==
    /\ expects \in {"arrayNext", "objectNext"}
    /\ GetToken(",")
    /\ expects' = "value"
    /\ UNCHANGED <<states, ref_stack, object_element, made>>

Comma ==
    /\ expects \in {"arrayNext", "objectNext"}
    /\ GetToken(",")
    /\ expects' = IF expects = "arrayNext" THEN "value" ELSE "key"
    /\ UNCHANGED <<states, ref_stack, object_element, made>>

(* An empty container was not pushed to states yet. *)
EndEmpty ==
    /\ \/ expects = "firstElement" /\ GetToken("]")
       \/ expects = "firstKey" /\ GetToken("}")
    /\ ref_stack' = Front(ref_stack)
    /\ expects' = AfterValue(states)
    /\ UNCHANGED <<states, object_element, made>>

(* Mutants of EndFilled: the handler's stack is forgotten; the state       *)
(* evaluation is skipped, as if a further element had to come.             *)
EndFilledOnlyState ==
    /\ \/ expects = "arrayNext" /\ GetToken("]")
       \/ expects = "objectNext" /\ GetToken("}")
    /\ states' = Front(states)
    /\ expects' = AfterValue(states')
    /\ UNCHANGED <<ref_stack, object_element, made>>

EndFilledWithoutPop ==
    /\ \/ expects = "arrayNext" /\ GetToken("]")
       \/ expects = "objectNext" /\ GetToken("}")
    /\ ref_stack' = Front(ref_stack)
    /\ expects' = AfterValue(states)
    /\ UNCHANGED <<states, object_element, made>>

EndFilled ==
    /\ \/ expects = "arrayNext" /\ GetToken("]")
       \/ expects = "objectNext" /\ GetToken("}")
    /\ states' = Front(states)
    /\ ref_stack' = Front(ref_stack)
    /\ expects' = AfterValue(states')
    /\ UNCHANGED <<object_element, made>>

(* parse() is strict: nothing may follow the value. *)
Accept ==
    /\ expects = "end"
    /\ GetToken("end")
    /\ expects' = "accepted"
    /\ UNCHANGED <<states, ref_stack, object_element, made>>

Wanted ==
    [value |-> Scalars \cup {"{", "["},
     firstElement |-> Scalars \cup {"{", "[", "]"},
     firstKey |-> {"string", "}"}, key |-> {"string"},
     firstColon |-> {":"}, colon |-> {":"},
     arrayNext |-> {",", "]"}, objectNext |-> {",", "}"},
     end |-> {"end"}]

(* Any other token is an error, which ends the parsing. *)
Fail ==
    /\ expects \in DOMAIN Wanted
    /\ \E token \in Tokens \ Wanted[expects] : GetToken(token)
    /\ expects' = "failed"
    /\ UNCHANGED <<states, ref_stack, object_element, made>>

Next ==
    \/ BeginObject \/ BeginArray \/ Scalar \/ NumberOverflow
    \/ Key \/ Colon \/ Comma \/ EndEmpty \/ EndFilled
    \/ Accept \/ Fail

Spec == Init /\ [][Next]_vars

-----------------------------------------------------------------------------
(* The grammar of RFC 8259, by length *)

Joined(lefts, middle, rights) ==
    {left \o middle \o right : left \in lefts, right \in rights}

Around(open, insides, close) == {<<open>> \o inside \o <<close>> : inside \in insides}

(* The values, comma separated values, and comma separated members of n    *)
(* tokens, made of the shorter ones.                                       *)
ValuesOf(shorter, n) ==
    IF n = 1 THEN {<<token>> : token \in Scalars}
    ELSE IF n = 2 THEN {<<"[", "]">>, <<"{", "}">>}
    ELSE IF n > 2 THEN Around("[", shorter[n - 2].elements, "]")
                           \cup Around("{", shorter[n - 2].members, "}")
    ELSE {}

MembersOf(shorter, n) ==
    IF n > 2 THEN {<<"string", ":">> \o value : value \in shorter[n - 2].value} ELSE {}

PhrasesOf(shorter, n) ==
    [value |-> ValuesOf(shorter, n),
     elements |->
        ValuesOf(shorter, n)
            \cup UNION {Joined(shorter[k].value, <<",">>, shorter[n - 1 - k].elements) :
                           k \in 1 .. n - 2},
     members |->
        MembersOf(shorter, n)
            \cup UNION {Joined(MembersOf(shorter, k), <<",">>, shorter[n - 1 - k].members) :
                           k \in 1 .. n - 2}]

Grammar[n \in Nat] == PhrasesOf([k \in 0 .. n - 1 |-> Grammar[k]], n)

Documents == UNION {Grammar[n].value : n \in 1 .. MaxTokens - 1}

-----------------------------------------------------------------------------
(* Properties *)

(* Types, and a handler whose stack is as high as it should be. *)
TypeOK ==
    /\ text \in Seq(Tokens) /\ Len(text) <= MaxTokens
    /\ expects \in Places
    /\ states \in Seq(Containers)
    /\ made \in Nat
    /\ ref_stack \in Seq([kind : Containers, id : 1 .. made])
    /\ object_element \in 0 .. made
    /\ Len(ref_stack) <= Len(states) + 1

(* What is accepted is a document, however deep and in whatever order its  *)
(* arrays and objects are nested (json.hpp:10891-11169).                   *)
AcceptsOnlyDocuments ==
    expects = "accepted" => Front(text) \in Documents

(* A document makes the parser throw only at a number too large for a      *)
(* double (json.hpp:10979-10984): when it fails at anything else, nothing  *)
(* that could still come would make a document of what it has read.        *)
NoFalseAlarm ==
    expects = "failed" =>
        \/ Last(text) = "overflow"
        \/ \A document \in Documents : ~ IsPrefix(text, Append(document, "end"))

Opened == expects \in {"firstElement", "firstKey", "firstColon"}

(* The two stacks are kept by two objects that never look at each other:   *)
(* they always agree, so ref_stack.back() is there whenever it is used     *)
(* (json.hpp:5946-5973), a value goes to the innermost container, and, if  *)
(* that is an object, into the member that was named in it last and not in *)
(* one that has been closed since (json.hpp:6000-6019).                    *)
StacksAgree ==
    expects # "failed" =>
        LET kinds == [i \in DOMAIN ref_stack |-> ref_stack[i].kind]
        IN  /\ IF Opened THEN states = Front(kinds) ELSE states = kinds
            /\ expects = "firstElement" => Last(kinds) = "array"
            /\ expects \in {"firstKey", "firstColon"} => Last(kinds) = "object"
            /\ (expects = "value" /\ ref_stack # <<>> /\ Last(kinds) = "object") =>
                  object_element = Last(ref_stack).id
=============================================================================
