-------------------------- MODULE JsonParserProofs --------------------------
(***************************************************************************)
(* The JSON parser, for texts of every length: its two stacks agree, and   *)
(* it accepts exactly the documents of the grammar.                        *)
(***************************************************************************)
EXTENDS JsonParser, DataProofs, SequenceTheorems, TLAPS

LEMMA FrontOfStack ==
    ASSUME NEW T, NEW stack \in Seq(T), Len(stack) > 0
    PROVE  /\ Front(stack) \in Seq(T)
           /\ Len(Front(stack)) = Len(stack) - 1
           /\ \A i \in 1 .. Len(stack) - 1 : Front(stack)[i] = stack[i]
<1>1. PICK n \in Nat : Len(stack) = n + 1
  <2>1. Len(stack) - 1 \in Nat /\ Len(stack) = (Len(stack) - 1) + 1
    OBVIOUS
  <2> QED BY <2>1
<1>2. \A i \in 1 .. n : stack[i] \in T
  BY <1>1
<1>3. /\ SubSeq(stack, 1, n) \in Seq(T)
      /\ Len(SubSeq(stack, 1, n)) = IF 1 <= n THEN n - 1 + 1 ELSE 0
      /\ \A i \in 1 .. n - 1 + 1 : SubSeq(stack, 1, n)[i] = stack[1 + i - 1]
  BY <1>2, SubSeqProperties
<1>4. Front(stack) = SubSeq(stack, 1, n)
  BY <1>1 DEF Front
<1> QED BY <1>1, <1>3, <1>4

(* What the parser knows at each place in the loop: which of its           *)
(* containers the two stacks end with, and that the member to be filled    *)
(* is one of the innermost object.                                         *)
Depths ==
    /\ Len(ref_stack) = IF Opened THEN Len(states) + 1 ELSE Len(states)
    /\ \A i \in 1 .. Len(states) : states[i] = ref_stack[i].kind

Innermost ==
    LET d == Len(states)
        r == Len(ref_stack)
    IN  /\ expects = "firstElement" => ref_stack[r].kind = "array"
        /\ expects \in {"firstKey", "firstColon"} => ref_stack[r].kind = "object"
        /\ expects = "arrayNext" => d > 0 /\ states[d] = "array"
        /\ expects \in {"objectNext", "key", "colon"} => d > 0 /\ states[d] = "object"
        /\ expects = "end" => d = 0
        /\ expects \in {"firstColon", "colon"} => object_element = ref_stack[r].id
        /\ (expects = "value" /\ d > 0 /\ states[d] = "object") =>
              object_element = ref_stack[r].id

Parsing == expects # "failed" => Depths /\ Innermost

Inv == TypeOK /\ Parsing

LEMMA FrameType ==
    ASSUME TypeOK, NEW i \in 1 .. Len(ref_stack)
    PROVE  ref_stack[i] \in [kind : Containers, id : 1 .. made] /\ made \in Nat
<1> DEFINE Frame == [kind : Containers, id : 1 .. made]
<1>1. ref_stack \in Seq(Frame) /\ made \in Nat
  BY DEF TypeOK
<1> HIDE DEF Frame
<1>2. ref_stack[i] \in Frame
  BY <1>1
<1> QED BY <1>1, <1>2 DEF Frame

LEMMA InitInv == Init => Inv
BY MaxTokensAssumption
   DEF Init, Inv, TypeOK, Parsing, Depths, Innermost, Opened, Places, None

(* The types that no stack is about. *)
LEMMA TextStep ==
    ASSUME TypeOK, NEW token \in Tokens, GetToken(token)
    PROVE  text' \in Seq(Tokens) /\ Len(text') <= MaxTokens
BY MaxTokensAssumption DEF TypeOK, GetToken

(* When a value begins, the two stacks are equally high and alike. *)
LEMMA ValueBegins ==
    ASSUME Inv, AtValue
    PROVE  /\ states' \in Seq(Containers)
           /\ Len(states') = Len(ref_stack)
           /\ \A i \in 1 .. Len(states') : states'[i] = ref_stack[i].kind
<1>1. CASE expects = "value"
  BY <1>1 DEF Inv, TypeOK, Parsing, Depths, AtValue, Opened
<1>2. CASE expects = "firstElement" /\ states' = Append(states, "array")
  BY <1>2 DEF Inv, TypeOK, Parsing, Depths, Innermost, Opened, Containers
<1> QED BY <1>1, <1>2 DEF AtValue

(* After a value the loop looks at the innermost container. *)
LEMMA AfterValueStep ==
    ASSUME NEW stack \in Seq(Containers)
    PROVE  LET d == Len(stack)
               next == AfterValue(stack)
           IN  /\ next \in {"arrayNext", "objectNext", "end"}
               /\ next = "end" <=> d = 0
               /\ next = "arrayNext" => d > 0 /\ stack[d] = "array"
               /\ next = "objectNext" => d > 0 /\ stack[d] = "object"
<1>1. stack = <<>> <=> Len(stack) = 0
  OBVIOUS
<1> QED BY <1>1 DEF AfterValue, Last, Containers

LEMMA PushStep ==
    ASSUME Inv, NEW kind \in Containers, AtValue, Push(kind),
           expects' = IF kind = "array" THEN "firstElement" ELSE "firstKey",
           text' \in Seq(Tokens) /\ Len(text') <= MaxTokens
    PROVE  Inv'
<1>1. /\ states' \in Seq(Containers)
      /\ Len(states') = Len(ref_stack)
      /\ \A i \in 1 .. Len(states') : states'[i] = ref_stack[i].kind
  BY ValueBegins
<1>2. /\ made' \in Nat /\ made' = made + 1
      /\ ref_stack' \in Seq([kind : Containers, id : 1 .. made'])
      /\ Len(ref_stack') = Len(ref_stack) + 1
      /\ \A i \in 1 .. Len(ref_stack) : ref_stack'[i] = ref_stack[i]
      /\ ref_stack'[Len(ref_stack) + 1].kind = kind
  <2> DEFINE Frame(n) == [kind : Containers, id : 1 .. n]
             top == [kind |-> kind, id |-> made + 1]
  <2>1. made \in Nat /\ made' = made + 1 /\ ref_stack \in Seq(Frame(made))
    BY DEF Inv, TypeOK, Push
  <2>2. Frame(made) \subseteq Frame(made') /\ top \in Frame(made')
    BY <2>1
  <2> HIDE DEF Frame
  <2>3. ref_stack \in Seq(Frame(made'))
    BY <2>1, <2>2
  <2>4. ref_stack' = Append(ref_stack, top)
    BY DEF Push
  <2>5. top.kind = kind
    OBVIOUS
  <2> HIDE DEF top
  <2>6. /\ ref_stack' \in Seq(Frame(made'))
        /\ Len(ref_stack') = Len(ref_stack) + 1
        /\ \A i \in 1 .. Len(ref_stack) : ref_stack'[i] = ref_stack[i]
        /\ ref_stack'[Len(ref_stack) + 1] = top
    BY <2>2, <2>3, <2>4
  <2> QED BY <2>1, <2>5, <2>6 DEF Frame
<1>3. object_element' \in 0 .. made'
  BY <1>2 DEF Inv, TypeOK, Push
<1>4. TypeOK'
  BY <1>1, <1>2, <1>3 DEF TypeOK, Places
<1>5. Depths' /\ Innermost'
  BY <1>1, <1>2 DEF Depths, Innermost, Opened, Containers
<1> QED BY <1>4, <1>5 DEF Inv, Parsing

LEMMA ScalarStep == Inv /\ Scalar => Inv'
<1> SUFFICES ASSUME Inv, Scalar PROVE Inv'
  OBVIOUS
<1>1. /\ states' \in Seq(Containers)
      /\ Len(states') = Len(ref_stack)
      /\ \A i \in 1 .. Len(states') : states'[i] = ref_stack[i].kind
  BY ValueBegins DEF Scalar
<1>2. text' \in Seq(Tokens) /\ Len(text') <= MaxTokens
  BY TextStep DEF Inv, Scalar, Tokens
<1>3. /\ expects' = AfterValue(states')
      /\ UNCHANGED <<ref_stack, object_element, made>>
  BY DEF Scalar
<1>4. TypeOK'
  BY <1>1, <1>2, <1>3, AfterValueStep DEF Inv, TypeOK, Places
<1>5. Depths' /\ Innermost'
  BY <1>1, <1>3, AfterValueStep DEF Depths, Innermost, Opened
<1> QED BY <1>4, <1>5 DEF Inv, Parsing

LEMMA OverflowStep == Inv /\ NumberOverflow => Inv'
<1> SUFFICES ASSUME Inv, NumberOverflow PROVE Inv'
  OBVIOUS
<1>1. /\ states' \in Seq(Containers)
      /\ Len(states') = Len(ref_stack)
  BY ValueBegins DEF NumberOverflow
<1>2. text' \in Seq(Tokens) /\ Len(text') <= MaxTokens
  BY TextStep DEF Inv, NumberOverflow, Tokens, Scalars
<1>3. expects' = "failed" /\ UNCHANGED <<ref_stack, object_element, made>>
  BY DEF NumberOverflow
<1>4. TypeOK'
  BY <1>1, <1>2, <1>3 DEF Inv, TypeOK, Places
<1> QED BY <1>3, <1>4 DEF Inv, Parsing

LEMMA KeyStep == Inv /\ Key => Inv'
<1> SUFFICES ASSUME Inv, Key PROVE Inv'
  OBVIOUS
<1>1. text' \in Seq(Tokens) /\ Len(text') <= MaxTokens
  BY TextStep DEF Inv, Key, Tokens, Scalars
<1>2. /\ Depths /\ Innermost
      /\ Len(ref_stack) > 0
      /\ object_element' = ref_stack[Len(ref_stack)].id
  BY DEF Key, Inv, TypeOK, Parsing, Depths, Innermost, Opened, Last
<1>3. TypeOK'
  <2>1. object_element' \in 0 .. made
    <3> DEFINE top == ref_stack[Len(ref_stack)]
    <3>1. Len(ref_stack) \in Nat
      BY DEF Inv, TypeOK
    <3>2. top \in [kind : Containers, id : 1 .. made] /\ made \in Nat
      BY <1>2, <3>1, FrameType DEF Inv
    <3> QED BY <1>2, <3>2
  <2> QED BY <1>1, <2>1 DEF Inv, TypeOK, Key, Places
<1>4. Depths' /\ Innermost'
  BY <1>2 DEF Inv, TypeOK, Depths, Innermost, Opened, Key
<1> QED BY <1>3, <1>4 DEF Inv, Parsing

LEMMA ColonStep == Inv /\ Colon => Inv'
<1> SUFFICES ASSUME Inv, Colon PROVE Inv'
  OBVIOUS
<1>1. text' \in Seq(Tokens) /\ Len(text') <= MaxTokens
  BY TextStep DEF Inv, Colon, Tokens
<1>2. Depths /\ Innermost
  BY DEF Colon, Inv, Parsing
<1>3. TypeOK'
  BY <1>1, <1>2 DEF Inv, TypeOK, Colon, Places, Containers, Depths, Opened
<1>4. Depths' /\ Innermost'
  BY <1>2 DEF Inv, TypeOK, Depths, Innermost, Opened, Colon, Containers
<1> QED BY <1>3, <1>4 DEF Inv, Parsing

LEMMA CommaStep == Inv /\ Comma => Inv'
<1> SUFFICES ASSUME Inv, Comma PROVE Inv'
  OBVIOUS
<1>1. text' \in Seq(Tokens) /\ Len(text') <= MaxTokens
  BY TextStep DEF Inv, Comma, Tokens
<1>2. Depths /\ Innermost
  BY DEF Comma, Inv, Parsing
<1>3. TypeOK'
  BY <1>1 DEF Inv, TypeOK, Comma, Places
<1>4. Depths' /\ Innermost'
  BY <1>2 DEF Inv, TypeOK, Depths, Innermost, Opened, Comma
<1> QED BY <1>3, <1>4 DEF Inv, Parsing

(* A container ends, and the handler's stack loses its top.  What the      *)
(* states lose makes the two equally high again.                           *)
LEMMA EndStep ==
    ASSUME Inv, expects # "failed", Len(ref_stack) > 0,
           ref_stack' = Front(ref_stack), expects' = AfterValue(states'),
           UNCHANGED <<object_element, made>>,
           states' \in Seq(Containers), Len(states') = Len(ref_stack) - 1,
           \A i \in 1 .. Len(states') : states'[i] = states[i],
           text' \in Seq(Tokens) /\ Len(text') <= MaxTokens
    PROVE  Inv'
<1>1. Depths
  BY DEF Inv, Parsing
<1>2. /\ ref_stack' \in Seq([kind : Containers, id : 1 .. made'])
      /\ Len(ref_stack') = Len(ref_stack) - 1
      /\ \A i \in 1 .. Len(ref_stack) - 1 : ref_stack'[i] = ref_stack[i]
  BY FrontOfStack DEF Inv, TypeOK
<1>3. Len(ref_stack) \in Nat /\ Len(states) \in Nat
  BY DEF Inv, TypeOK
<1>4. TypeOK'
  BY <1>2, <1>3, AfterValueStep DEF Inv, TypeOK, Places
<1>5. \A i \in 1 .. Len(states') : states'[i] = ref_stack'[i].kind
  <2>1. Len(states) >= Len(ref_stack) - 1
    BY <1>1, <1>3 DEF Depths
  <2>2. \A i \in 1 .. Len(states') : states[i] = ref_stack[i].kind /\ ref_stack'[i] = ref_stack[i]
    BY <1>1, <1>2, <1>3, <2>1 DEF Depths
  <2> QED BY <2>2
<1>6. Depths' /\ Innermost'
  BY <1>2, <1>3, <1>5, AfterValueStep DEF Depths, Innermost, Opened
<1> QED BY <1>4, <1>6 DEF Inv, Parsing

LEMMA EndEmptyStep == Inv /\ EndEmpty => Inv'
<1> SUFFICES ASSUME Inv, EndEmpty PROVE Inv'
  OBVIOUS
<1>1. text' \in Seq(Tokens) /\ Len(text') <= MaxTokens
  BY TextStep DEF Inv, EndEmpty, Tokens
<1>2. /\ expects # "failed" /\ Len(ref_stack) > 0
      /\ states' \in Seq(Containers) /\ Len(states') = Len(ref_stack) - 1
      /\ states' = states
  <2>1. Opened /\ expects # "failed" /\ states' = states
    BY DEF EndEmpty, Opened
  <2>2. Len(ref_stack) = Len(states) + 1
    BY <2>1 DEF Inv, Parsing, Depths
  <2>3. states \in Seq(Containers) /\ Len(states) \in Nat
    BY DEF Inv, TypeOK
  <2> QED BY <2>1, <2>2, <2>3
<1>3. /\ ref_stack' = Front(ref_stack) /\ expects' = AfterValue(states')
      /\ UNCHANGED <<object_element, made>>
  BY <1>2 DEF EndEmpty
<1> QED BY <1>1, <1>2, <1>3, EndStep

LEMMA EndFilledStep == Inv /\ EndFilled => Inv'
<1> SUFFICES ASSUME Inv, EndFilled PROVE Inv'
  OBVIOUS
<1>1. text' \in Seq(Tokens) /\ Len(text') <= MaxTokens
  BY TextStep DEF Inv, EndFilled, Tokens
<1>2. /\ expects # "failed" /\ states \in Seq(Containers) /\ Len(states) > 0
      /\ Len(ref_stack) = Len(states)
  BY DEF EndFilled, Inv, TypeOK, Parsing, Depths, Innermost, Opened
<1>3. /\ ref_stack' = Front(ref_stack) /\ expects' = AfterValue(states')
      /\ states' = Front(states) /\ UNCHANGED <<object_element, made>>
  BY DEF EndFilled
<1>4. /\ states' \in Seq(Containers) /\ Len(states') = Len(states) - 1
      /\ \A i \in 1 .. Len(states) - 1 : states'[i] = states[i]
  BY <1>2, <1>3, FrontOfStack
<1> QED BY <1>1, <1>2, <1>3, <1>4, EndStep

LEMMA LastStep == Inv /\ (Accept \/ Fail) => Inv'
<1> SUFFICES ASSUME Inv, Accept \/ Fail PROVE Inv'
  OBVIOUS
<1>1. text' \in Seq(Tokens) /\ Len(text') <= MaxTokens
  BY TextStep DEF Inv, Accept, Fail, Tokens
<1>2. TypeOK'
  BY <1>1 DEF Inv, TypeOK, Accept, Fail, Places
<1>3. Parsing'
  BY DEF Inv, Parsing, Depths, Innermost, Opened, Accept, Fail
<1> QED BY <1>2, <1>3 DEF Inv

LEMMA NextInv == Inv /\ [Next]_vars => Inv'
<1>1. ASSUME Inv, BeginObject \/ BeginArray
      PROVE  Inv'
  <2>1. text' \in Seq(Tokens) /\ Len(text') <= MaxTokens
    BY <1>1, TextStep DEF Inv, BeginObject, BeginArray, Tokens
  <2> QED BY <1>1, <2>1, PushStep DEF BeginObject, BeginArray, Containers
<1>2. ASSUME Inv, UNCHANGED vars
      PROVE  Inv'
  BY <1>2 DEF Inv, TypeOK, Parsing, Depths, Innermost, Opened, vars
<1> QED BY <1>1, <1>2, ScalarStep, OverflowStep, KeyStep, ColonStep, CommaStep, EndEmptyStep,
           EndFilledStep, LastStep DEF Next

(* Types, and a handler's stack that is never too high, for texts of every *)
(* length.                                                                 *)
THEOREM ParserTyped == Spec => []TypeOK
BY InitInv, NextInv, PTL DEF Spec, Inv

LEMMA InvAgrees == Inv => StacksAgree
<1> SUFFICES ASSUME Inv, expects # "failed" PROVE StacksAgree
  BY DEF StacksAgree
<1> DEFINE kinds == [i \in DOMAIN ref_stack |-> ref_stack[i].kind]
           r == Len(ref_stack)
<1>1. Depths /\ Innermost
  BY DEF Inv, Parsing
<1>2. kinds \in Seq(Containers) /\ Len(kinds) = r /\ r \in Nat
  <2>1. ref_stack \in Seq([kind : Containers, id : 1 .. made])
    BY DEF Inv, TypeOK
  <2>2. r \in Nat /\ DOMAIN ref_stack = 1 .. r
    BY <2>1
  <2>3. \A i \in 1 .. r : ref_stack[i].kind \in Containers
    <3>1. \A i \in 1 .. r : ref_stack[i] \in [kind : Containers, id : 1 .. made]
      BY FrameType DEF Inv
    <3> QED BY <3>1
  <2>4. kinds = [i \in 1 .. r |-> ref_stack[i].kind]
    BY <2>2
  <2> HIDE DEF kinds, r
  <2> QED BY <2>2, <2>3, <2>4
<1>3. states \in Seq(Containers) /\ \A i \in 1 .. Len(states) : states[i] = kinds[i]
  BY <1>1 DEF Inv, TypeOK, Depths, Opened
<1>4. IF Opened THEN states = Front(kinds) ELSE states = kinds
  <2>1. CASE Opened
    <3>1. r > 0 /\ Len(states) = r - 1
      BY <1>1, <1>2, <2>1, <1>3 DEF Depths
    <3>2. /\ Front(kinds) \in Seq(Containers) /\ Len(Front(kinds)) = r - 1
          /\ \A i \in 1 .. r - 1 : Front(kinds)[i] = kinds[i]
      <4> HIDE DEF kinds, r
      <4> QED BY <1>2, <3>1, FrontOfStack
    <3> HIDE DEF kinds, r
    <3> QED BY <1>3, <2>1, <3>1, <3>2
  <2>2. CASE ~ Opened
    <3>1. Len(states) = r
      BY <1>1, <2>2 DEF Depths
    <3> HIDE DEF kinds, r
    <3> QED BY <1>2, <1>3, <2>2, <3>1
  <2> QED BY <2>1, <2>2
<1>5. r > 0 => Last(kinds) = ref_stack[r].kind /\ Last(ref_stack) = ref_stack[r]
  BY <1>2 DEF Last
<1>6. ref_stack # <<>> => r > 0
  BY <1>2 DEF Inv, TypeOK
<1>7. Opened => r > 0
  BY <1>1, <1>2, <1>3 DEF Depths
<1>8. (expects = "value" /\ r > 0 /\ ref_stack[r].kind = "object") =>
          object_element = ref_stack[r].id
  BY <1>1, <1>2, <1>3 DEF Depths, Innermost, Opened
<1>9. /\ expects = "firstElement" => Last(kinds) = "array"
      /\ expects \in {"firstKey", "firstColon"} => Last(kinds) = "object"
  BY <1>1, <1>5, <1>7 DEF Innermost, Opened
<1> QED BY <1>4, <1>5, <1>6, <1>8, <1>9 DEF StacksAgree

(* The parser's stack and the handler's agree at every token of every      *)
(* text (json.hpp:5946-6019, 10891-11169).                                 *)
THEOREM ParserStacksAgree == Spec => []StacksAgree
BY InitInv, NextInv, InvAgrees, PTL DEF Spec

-----------------------------------------------------------------------------
(* Grammar, unfolded: the tables of the phrases of less than k tokens      *)
(* exist and agree, and are its beginnings.                                *)

IsTable(g, k) == g = [n \in 0 .. k - 1 |-> PhrasesOf([j \in 0 .. n - 1 |-> g[j]], n)]

LEMMA TableGrows ==
    ASSUME NEW k \in Nat, NEW g, IsTable(g, k)
    PROVE  \E h : IsTable(h, k + 1)
<1> DEFINE h == [n \in 0 .. k |-> IF n = k THEN PhrasesOf(g, k) ELSE g[n]]
<1>1. \A n \in 0 .. k - 1 : n \in 0 .. k /\ h[n] = g[n]
  OBVIOUS
<1>2. h[k] = PhrasesOf(g, k)
  OBVIOUS
<1>3. h = [n \in 0 .. k |-> h[n]]
  OBVIOUS
<1> HIDE DEF h
<1>4. ASSUME NEW n \in 0 .. k
      PROVE  h[n] = PhrasesOf([j \in 0 .. n - 1 |-> h[j]], n)
  <2>1. [j \in 0 .. n - 1 |-> h[j]] = [j \in 0 .. n - 1 |-> g[j]]
    BY <1>1
  <2>2. CASE n = k
    <3>1. g = [j \in 0 .. k - 1 |-> g[j]]
      BY DEF IsTable
    <3> QED BY <1>2, <2>1, <2>2, <3>1
  <2>3. CASE n # k
    <3>1. n \in 0 .. k - 1
      BY <2>3
    <3>2. g[n] = PhrasesOf([j \in 0 .. n - 1 |-> g[j]], n)
      BY <3>1 DEF IsTable
    <3> QED BY <1>1, <2>1, <3>1, <3>2
  <2> QED BY <2>2, <2>3
<1>5. (k + 1) - 1 = k
  OBVIOUS
<1> QED BY <1>3, <1>4, <1>5 DEF IsTable

LEMMA TablesAgree ==
    ASSUME NEW k \in Nat, NEW g, IsTable(g, k), NEW m \in Nat, NEW h, IsTable(h, m),
           NEW n \in Nat, n < k, n < m
    PROVE  g[n] = h[n]
<1> DEFINE S == {i \in Nat : \A j \in 0 .. i : j < k /\ j < m => g[j] = h[j]}
<1>1. ASSUME NEW i \in Nat, i < k, i < m, \A j \in 0 .. i - 1 : g[j] = h[j]
      PROVE  g[i] = h[i]
  <2>1. [j \in 0 .. i - 1 |-> g[j]] = [j \in 0 .. i - 1 |-> h[j]]
    BY <1>1
  <2>2. /\ g[i] = PhrasesOf([j \in 0 .. i - 1 |-> g[j]], i)
        /\ h[i] = PhrasesOf([j \in 0 .. i - 1 |-> h[j]], i)
    <3>1. i \in 0 .. k - 1 /\ i \in 0 .. m - 1
      BY <1>1
    <3> QED BY <3>1 DEF IsTable
  <2> QED BY <2>1, <2>2
<1>2. 0 \in S
  BY <1>1
<1>3. ASSUME NEW i \in Nat, i \in S PROVE i + 1 \in S
  <2> SUFFICES ASSUME NEW j \in 0 .. i + 1, j < k, j < m PROVE g[j] = h[j]
    OBVIOUS
  <2>1. CASE j \in 0 .. i
    BY <1>3, <2>1
  <2>2. CASE j \notin 0 .. i
    <3>1. j = i + 1 /\ j - 1 = i
      BY <2>2
    <3>2. \A l \in 0 .. j - 1 : g[l] = h[l]
      BY <1>3, <3>1
    <3> QED BY <1>1, <3>2
  <2> QED BY <2>1, <2>2
<1>4. n \in S
  <2> HIDE DEF S
  <2> QED BY <1>2, <1>3, Induction
<1> QED BY <1>4

LEMMA GrammarUnfolded ==
    \A n \in Nat : Grammar[n] = PhrasesOf([k \in 0 .. n - 1 |-> Grammar[k]], n)
<1> DEFINE IsGrammar(g) == g = [n \in Nat |-> PhrasesOf([k \in 0 .. n - 1 |-> g[k]], n)]
           N == {k \in Nat : \E g : IsTable(g, k)}
           H(k) == CHOOSE g : IsTable(g, k)
           whole == [n \in Nat |-> H(n + 1)[n]]
<1>1. 0 \in N
  <2> DEFINE g == [n \in {} |-> n]
  <2>1. IsTable(g, 0)
    BY DEF IsTable
  <2> QED BY <2>1
<1>2. Nat \subseteq N
  <2>1. \A k \in Nat : k \in N => k + 1 \in N
    BY TableGrows
  <2> HIDE DEF N
  <2> QED BY <1>1, <2>1, Induction
<1>3. \A k \in Nat : IsTable(H(k), k)
  BY <1>2
<1> HIDE DEF H
<1>4. ASSUME NEW n \in Nat
      PROVE  whole[n] = PhrasesOf([k \in 0 .. n - 1 |-> whole[k]], n)
  <2>1. IsTable(H(n + 1), n + 1)
    BY <1>3
  <2>2. H(n + 1)[n] = PhrasesOf([k \in 0 .. n - 1 |-> H(n + 1)[k]], n)
    BY <2>1 DEF IsTable
  <2>3. \A k \in 0 .. n - 1 : whole[k] = H(n + 1)[k]
    <3>1. ASSUME NEW k \in 0 .. n - 1 PROVE H(k + 1)[k] = H(n + 1)[k]
      <4>1. k \in Nat /\ k + 1 \in Nat /\ n + 1 \in Nat /\ k < k + 1 /\ k < n + 1
        OBVIOUS
      <4>2. IsTable(H(k + 1), k + 1)
        BY <1>3, <4>1
      <4> QED BY <2>1, <4>1, <4>2, TablesAgree
    <3> QED BY <3>1
  <2>4. [k \in 0 .. n - 1 |-> whole[k]] = [k \in 0 .. n - 1 |-> H(n + 1)[k]]
    BY <2>3
  <2>5. whole[n] = H(n + 1)[n]
    OBVIOUS
  <2> HIDE DEF whole
  <2> QED BY <2>2, <2>4, <2>5
<1>5. whole = [n \in Nat |-> whole[n]]
  OBVIOUS
<1> HIDE DEF whole
<1>6. IsGrammar(whole)
  BY <1>4, <1>5
<1>7. IsGrammar(CHOOSE g : IsGrammar(g))
  BY <1>6
<1>8. Grammar = CHOOSE g : IsGrammar(g)
  BY DEF Grammar
<1>9. IsGrammar(Grammar)
  BY <1>7, <1>8
<1> QED BY <1>9

LEMMA GrammarEquation == \A n \in Nat : Grammar[n] = PhrasesOf(Grammar, n)
<1> SUFFICES ASSUME NEW n \in Nat PROVE Grammar[n] = PhrasesOf(Grammar, n)
  OBVIOUS
<1> DEFINE shorter == [k \in 0 .. n - 1 |-> Grammar[k]]
<1>1. Grammar[n] = PhrasesOf(shorter, n)
  BY GrammarUnfolded
<1>2. \A k \in 0 .. n - 1 : shorter[k] = Grammar[k]
  OBVIOUS
<1> HIDE DEF shorter
<1>3. n > 2 => shorter[n - 2] = Grammar[n - 2]
  BY <1>2
<1>4. ValuesOf(shorter, n) = ValuesOf(Grammar, n)
  BY <1>3 DEF ValuesOf
<1>5. MembersOf(shorter, n) = MembersOf(Grammar, n)
  BY <1>3 DEF MembersOf
<1>6. ASSUME NEW k \in 1 .. n - 2
      PROVE  /\ shorter[k] = Grammar[k] /\ shorter[n - 1 - k] = Grammar[n - 1 - k]
             /\ MembersOf(shorter, k) = MembersOf(Grammar, k)
  <2>1. shorter[k] = Grammar[k] /\ shorter[n - 1 - k] = Grammar[n - 1 - k]
    BY <1>2
  <2>2. k > 2 => shorter[k - 2] = Grammar[k - 2]
    BY <1>2
  <2> QED BY <2>1, <2>2 DEF MembersOf
<1>7. {Joined(shorter[k].value, <<",">>, shorter[n - 1 - k].elements) : k \in 1 .. n - 2} =
        {Joined(Grammar[k].value, <<",">>, Grammar[n - 1 - k].elements) : k \in 1 .. n - 2}
  BY <1>6
<1>8. {Joined(MembersOf(shorter, k), <<",">>, shorter[n - 1 - k].members) : k \in 1 .. n - 2} =
        {Joined(MembersOf(Grammar, k), <<",">>, Grammar[n - 1 - k].members) : k \in 1 .. n - 2}
  BY <1>6
<1> QED BY <1>1, <1>4, <1>5, <1>7, <1>8 DEF PhrasesOf

ElementsWith(k, n) == Joined(Grammar[k].value, <<",">>, Grammar[n - 1 - k].elements)
MembersWith(k, n) == Joined(MembersOf(Grammar, k), <<",">>, Grammar[n - 1 - k].members)

LEMMA GrammarFields ==
    ASSUME NEW n \in Nat
    PROVE  /\ Grammar[n].value = ValuesOf(Grammar, n)
           /\ Grammar[n].elements =
                ValuesOf(Grammar, n) \cup UNION {ElementsWith(k, n) : k \in 1 .. n - 2}
           /\ Grammar[n].members =
                MembersOf(Grammar, n) \cup UNION {MembersWith(k, n) : k \in 1 .. n - 2}
<1>1. \A a, b, c : /\ [value |-> a, elements |-> b, members |-> c].value = a
                   /\ [value |-> a, elements |-> b, members |-> c].elements = b
                   /\ [value |-> a, elements |-> b, members |-> c].members = c
  OBVIOUS
<1> DEFINE a == ValuesOf(Grammar, n)
           b == a \cup UNION {ElementsWith(k, n) : k \in 1 .. n - 2}
           c == MembersOf(Grammar, n) \cup UNION {MembersWith(k, n) : k \in 1 .. n - 2}
<1>2. Grammar[n] = [value |-> a, elements |-> b, members |-> c]
  BY GrammarEquation DEF PhrasesOf, ElementsWith, MembersWith
<1>3. Grammar[n].value = a /\ Grammar[n].elements = b /\ Grammar[n].members = c
  <2> HIDE DEF a, b, c
  <2> QED BY <1>1, <1>2
<1> QED BY <1>3

(* A phrase of n tokens has n tokens. *)
Words(n) == {word \in Seq(Tokens) : Len(word) = n}

PhrasesAreWords(n) ==
    /\ Grammar[n].value \subseteq Words(n)
    /\ Grammar[n].elements \subseteq Words(n)
    /\ Grammar[n].members \subseteq Words(n)

LEMMA SingleWord ==
    ASSUME NEW token \in Tokens
    PROVE  <<token>> \in Seq(Tokens) /\ Len(<<token>>) = 1
OBVIOUS

LEMMA MembersAreWords ==
    ASSUME NEW n \in Nat, n > 2 => PhrasesAreWords(n - 2)
    PROVE  MembersOf(Grammar, n) \subseteq Words(n)
<1>1. CASE n > 2
  <2>1. ASSUME NEW value \in Grammar[n - 2].value
        PROVE  <<"string", ":">> \o value \in Words(n)
    <3>1. value \in Seq(Tokens) /\ Len(value) = n - 2
      BY <1>1 DEF PhrasesAreWords, Words
    <3>2. <<"string", ":">> \in Seq(Tokens) /\ Len(<<"string", ":">>) = 2
      BY DEF Tokens, Scalars
    <3> DEFINE head == <<"string", ":">>
    <3> HIDE DEF head
    <3>3. head \o value \in Seq(Tokens) /\ Len(head \o value) = 2 + (n - 2)
      BY <3>1, <3>2 DEF head
    <3> QED BY <3>3 DEF Words, head
  <2> QED BY <1>1, <2>1 DEF MembersOf
<1>2. CASE ~ (n > 2)
  BY <1>2 DEF MembersOf
<1> QED BY <1>1, <1>2

LEMMA JoinedParts ==
    ASSUME NEW lefts, NEW middle, NEW rights
    PROVE  \A word : word \in Joined(lefts, middle, rights) <=>
                       \E left \in lefts, right \in rights : word = left \o middle \o right
BY SMT DEF Joined

LEMMA JoinedAreWords ==
    ASSUME NEW k \in Nat, NEW m \in Nat, NEW middle \in Words(1),
           NEW lefts, lefts \subseteq Words(k), NEW rights, rights \subseteq Words(m)
    PROVE  Joined(lefts, middle, rights) \subseteq Words(k + 1 + m)
<1> SUFFICES ASSUME NEW word \in Joined(lefts, middle, rights)
             PROVE  word \in Words(k + 1 + m)
  OBVIOUS
<1>1. PICK left \in lefts, right \in rights : word = left \o middle \o right
  BY JoinedParts
<1>2. /\ left \in Seq(Tokens) /\ Len(left) = k /\ right \in Seq(Tokens) /\ Len(right) = m
      /\ middle \in Seq(Tokens) /\ Len(middle) = 1
  BY DEF Words
<1> DEFINE both == left \o middle
<1>3. both \in Seq(Tokens) /\ Len(both) = k + 1
  <2>1. both \in Seq(Tokens) /\ Len(both) = Len(left) + Len(middle)
    BY <1>2, ConcatProperties
  <2> QED BY <1>2, <2>1
<1> HIDE DEF both
<1>4. both \o right \in Seq(Tokens) /\ Len(both \o right) = k + 1 + m
  <2>1. both \o right \in Seq(Tokens) /\ Len(both \o right) = Len(both) + Len(right)
    BY <1>2, <1>3, ConcatProperties
  <2> QED BY <1>2, <1>3, <2>1
<1> QED BY <1>1, <1>4 DEF Words, both

LEMMA AroundAreWords ==
    ASSUME NEW m \in Nat, NEW insides, insides \subseteq Words(m),
           NEW open \in Tokens, NEW close \in Tokens
    PROVE  Around(open, insides, close) \subseteq Words(m + 2)
<1> SUFFICES ASSUME NEW inside \in insides
             PROVE  <<open>> \o inside \o <<close>> \in Words(m + 2)
  BY DEF Around
<1>1. inside \in Seq(Tokens) /\ Len(inside) = m
  BY DEF Words
<1>2. <<open>> \o inside \in Seq(Tokens) /\ Len(<<open>> \o inside) = m + 1
  BY <1>1
<1> DEFINE both == <<open>> \o inside
<1> HIDE DEF both
<1>3. both \o <<close>> \in Seq(Tokens) /\ Len(both \o <<close>>) = m + 2
  BY <1>2 DEF both
<1> QED BY <1>3 DEF Words, both

LEMMA GrammarTyped == \A n \in Nat : PhrasesAreWords(n)
<1> DEFINE S == {n \in Nat : \A k \in 0 .. n : PhrasesAreWords(k)}
<1>1. ASSUME NEW n \in Nat, \A k \in 0 .. n - 1 : PhrasesAreWords(k)
      PROVE  PhrasesAreWords(n)
  <2>1. ValuesOf(Grammar, n) \subseteq Words(n)
    <3>1. CASE n = 1
      <4>1. \A token \in Scalars : <<token>> \in Words(1)
        BY SingleWord DEF Words, Tokens
      <4>2. ValuesOf(Grammar, n) = {<<token>> : token \in Scalars}
        BY <3>1 DEF ValuesOf
      <4> QED BY <3>1, <4>1, <4>2
    <3>2. CASE n = 2
      <4>1. <<"[", "]">> \in Words(2) /\ <<"{", "}">> \in Words(2)
        BY DEF Words, Tokens
      <4>2. ValuesOf(Grammar, n) = {<<"[", "]">>, <<"{", "}">>}
        BY <3>2 DEF ValuesOf
      <4> QED BY <3>2, <4>1, <4>2
    <3>3. CASE n > 2
      <4>1. PhrasesAreWords(n - 2) /\ n - 2 \in Nat /\ (n - 2) + 2 = n
        BY <1>1, <3>3
      <4>2. Around("[", Grammar[n - 2].elements, "]") \subseteq Words((n - 2) + 2)
        BY <4>1, AroundAreWords DEF PhrasesAreWords, Tokens
      <4>3. Around("{", Grammar[n - 2].members, "}") \subseteq Words((n - 2) + 2)
        BY <4>1, AroundAreWords DEF PhrasesAreWords, Tokens
      <4>4. ValuesOf(Grammar, n) = Around("[", Grammar[n - 2].elements, "]")
                                     \cup Around("{", Grammar[n - 2].members, "}")
        <5>1. n # 1 /\ n # 2
          BY <3>3
        <5> QED BY <3>3, <5>1, Zenon DEF ValuesOf
      <4> QED BY <4>1, <4>2, <4>3, <4>4
    <3>4. CASE n = 0
      BY <3>4 DEF ValuesOf
    <3> QED BY <3>1, <3>2, <3>3, <3>4
  <2>2. ASSUME NEW k \in Nat, k <= n PROVE MembersOf(Grammar, k) \subseteq Words(k)
    <3>1. k > 2 => PhrasesAreWords(k - 2)
      BY <1>1, <2>2
    <3> QED BY <3>1, MembersAreWords
  <2>3. ASSUME NEW k \in 1 .. n - 2
        PROVE  ElementsWith(k, n) \subseteq Words(n) /\ MembersWith(k, n) \subseteq Words(n)
    <3>1. /\ k \in Nat /\ n - 1 - k \in Nat /\ k + 1 + (n - 1 - k) = n /\ k <= n
          /\ PhrasesAreWords(k) /\ PhrasesAreWords(n - 1 - k)
      BY <1>1
    <3>2. MembersOf(Grammar, k) \subseteq Words(k)
      BY <2>2, <3>1
    <3> DEFINE comma == <<",">>
    <3>3. comma \in Words(1)
      BY SingleWord DEF Words, Tokens
    <3> HIDE DEF comma
    <3>4. Joined(Grammar[k].value, comma, Grammar[n - 1 - k].elements)
            \subseteq Words(k + 1 + (n - 1 - k))
      BY <3>1, <3>3, JoinedAreWords DEF PhrasesAreWords
    <3>5. Joined(MembersOf(Grammar, k), comma, Grammar[n - 1 - k].members)
            \subseteq Words(k + 1 + (n - 1 - k))
      BY <3>1, <3>2, <3>3, JoinedAreWords DEF PhrasesAreWords
    <3> QED BY <3>1, <3>4, <3>5 DEF ElementsWith, MembersWith, comma
  <2>4. MembersOf(Grammar, n) \subseteq Words(n)
    BY <2>2
  <2> QED BY <2>1, <2>3, <2>4, GrammarFields DEF PhrasesAreWords
<1>2. 0 \in S
  BY <1>1
<1>3. ASSUME NEW n \in Nat, n \in S PROVE n + 1 \in S
  <2>1. \A k \in 0 .. (n + 1) - 1 : PhrasesAreWords(k)
    BY <1>3
  <2>2. PhrasesAreWords(n + 1)
    BY <1>1, <2>1
  <2>3. \A k \in 0 .. n + 1 : k \in 0 .. n \/ k = n + 1
    OBVIOUS
  <2> QED BY <1>3, <2>2, <2>3
<1>4. Nat \subseteq S
  <2> HIDE DEF S
  <2> QED BY <1>2, <1>3, Induction
<1> QED BY <1>4

-----------------------------------------------------------------------------
(* The grammar, told of the places in a text: what stands from i to j.     *)

LEMMA PartOf ==
    ASSUME NEW s \in Seq(Tokens), NEW i \in Nat, NEW j \in Nat, 1 <= i, i <= j + 1, j <= Len(s)
    PROVE  /\ SubSeq(s, i, j) \in Words(j - i + 1)
           /\ SubSeq(s, i, j) \in Seq(Tokens)
           /\ \A k \in 1 .. j - i + 1 : SubSeq(s, i, j)[k] = s[i + k - 1]
<1>1. \A k \in i .. j : s[k] \in Tokens
  OBVIOUS
<1>2. /\ SubSeq(s, i, j) \in Seq(Tokens)
      /\ Len(SubSeq(s, i, j)) = IF i <= j THEN j - i + 1 ELSE 0
      /\ \A k \in 1 .. j - i + 1 : SubSeq(s, i, j)[k] = s[i + k - 1]
  BY <1>1, SubSeqProperties
<1> QED BY <1>2 DEF Words

LEMMA PartOfOne ==
    ASSUME NEW s \in Seq(Tokens), NEW i \in 1 .. Len(s), NEW token \in Tokens
    PROVE  SubSeq(s, i, i) = <<token>> <=> s[i] = token
<1>1. i \in Nat /\ 1 <= i /\ i <= i + 1 /\ i - i + 1 = 1 /\ i + 1 - 1 = i
  OBVIOUS
<1>2. /\ SubSeq(s, i, i) \in Seq(Tokens) /\ Len(SubSeq(s, i, i)) = 1 /\ SubSeq(s, i, i)[1] = s[i]
  BY <1>1, PartOf DEF Words
<1>3. <<token>> \in Seq(Tokens) /\ Len(<<token>>) = 1 /\ <<token>>[1] = token
  OBVIOUS
<1> DEFINE u == SubSeq(s, i, i)
           v == <<token>>
<1> HIDE DEF u, v
<1>4. (\A k \in 1 .. 1 : u[k] = v[k]) => u = v
  BY <1>2, <1>3, SeqEqual DEF u, v
<1>5. \A k \in 1 .. 1 : k = 1
  OBVIOUS
<1> QED BY <1>2, <1>3, <1>4, <1>5 DEF u, v

(* The two operators, for the steps that need no more than that.           *)
Part(s, i, j) == SubSeq(s, i, j)
Cat(u, v) == u \o v

Within(s, i, j) == s \in Seq(Tokens) /\ i \in Nat /\ j \in Nat /\ 1 <= i /\ j <= Len(s)

(* What stands from i to j falls into the first a tokens and b more.        *)
Split(s, i, j, a, b) ==
    /\ s \in Seq(Tokens)
    /\ i \in Nat /\ j \in Nat /\ 1 <= i /\ j <= Len(s)
    /\ a \in Nat /\ b \in Nat /\ a + b = j - i + 1

Pair(t1, t2) == <<t1, t2>>

LEMMA PairWords == \A t1, t2 \in Tokens : Pair(t1, t2) \in Words(2)
<1> SUFFICES ASSUME NEW t1 \in Tokens, NEW t2 \in Tokens PROVE Pair(t1, t2) \in Words(2)
  OBVIOUS
<1>1. <<t1, t2>> \in Seq(Tokens) /\ Len(<<t1, t2>>) = 2
  OBVIOUS
<1>2. Pair(t1, t2) \in Seq(Tokens) /\ Len(Pair(t1, t2)) = 2
  BY <1>1, Zenon DEF Pair
<1> QED BY <1>2 DEF Words

LEMMA PartOfTwo ==
    \A s, i, j, t1, t2 : Split(s, i, j, 1, 1) /\ t1 \in Tokens /\ t2 \in Tokens =>
        (Part(s, i, j) = Pair(t1, t2) <=> s[i] = t1 /\ s[j] = t2)
<1> SUFFICES ASSUME NEW s \in Seq(Tokens), NEW i \in Nat, 1 <= i, i + 1 <= Len(s),
                    NEW t1 \in Tokens, NEW t2 \in Tokens
             PROVE  Part(s, i, i + 1) = Pair(t1, t2) <=> s[i] = t1 /\ s[i + 1] = t2
  <2> SUFFICES ASSUME NEW s \in Seq(Tokens), NEW i \in Nat, NEW j \in Nat, 1 <= i, j <= Len(s),
                      j = i + 1, NEW t1 \in Tokens, NEW t2 \in Tokens
               PROVE  Part(s, i, j) = Pair(t1, t2) <=> s[i] = t1 /\ s[j] = t2
    BY DEF Split
  <2> QED OBVIOUS
<1>1. /\ i + 1 \in Nat /\ i <= (i + 1) + 1 /\ (i + 1) - i + 1 = 2
      /\ i + 1 - 1 = i /\ i + 2 - 1 = i + 1
  OBVIOUS
<1>0. /\ SubSeq(s, i, i + 1) \in Seq(Tokens) /\ Len(SubSeq(s, i, i + 1)) = 2
      /\ SubSeq(s, i, i + 1)[1] = s[i] /\ SubSeq(s, i, i + 1)[2] = s[i + 1]
  BY <1>1, PartOf DEF Words
<1>2. /\ Part(s, i, i + 1) \in Seq(Tokens) /\ Len(Part(s, i, i + 1)) = 2
      /\ Part(s, i, i + 1)[1] = s[i] /\ Part(s, i, i + 1)[2] = s[i + 1]
  BY <1>1, <1>0, Zenon DEF Part
<1>3. /\ Pair(t1, t2) \in Seq(Tokens) /\ Len(Pair(t1, t2)) = 2
      /\ Pair(t1, t2)[1] = t1 /\ Pair(t1, t2)[2] = t2
  BY DEF Pair
<1> DEFINE u == Part(s, i, i + 1)
           v == Pair(t1, t2)
<1> HIDE DEF u, v
<1>4. (\A k \in 1 .. 2 : u[k] = v[k]) => u = v
  BY <1>2, <1>3, SeqEqual DEF u, v
<1>5. \A k \in 1 .. 2 : k = 1 \/ k = 2
  OBVIOUS
<1> QED BY <1>2, <1>3, <1>4, <1>5 DEF u, v

LEMMA CatWords ==
    ASSUME NEW a \in Nat, NEW b \in Nat, NEW u \in Words(a), NEW v \in Words(b)
    PROVE  Cat(u, v) \in Words(a + b)
<1>1. u \in Seq(Tokens) /\ Len(u) = a /\ v \in Seq(Tokens) /\ Len(v) = b
  BY DEF Words
<1>2. u \o v \in Seq(Tokens) /\ Len(u \o v) = Len(u) + Len(v)
  BY <1>1, ConcatProperties
<1> QED BY <1>1, <1>2 DEF Words, Cat

LEMMA TwoParts ==
    \A s, i, j, a, b, u, v :
        Split(s, i, j, a, b) /\ u \in Words(a) /\ v \in Words(b) =>
            (Part(s, i, j) = Cat(u, v) <=> u = Part(s, i, i + a - 1) /\ v = Part(s, i + a, j))
<1> SUFFICES ASSUME NEW s \in Seq(Tokens), NEW i \in Nat, NEW j \in Nat, 1 <= i, j <= Len(s),
                    NEW a \in Nat, NEW b \in Nat, a + b = j - i + 1,
                    NEW u \in Words(a), NEW v \in Words(b)
             PROVE  Part(s, i, j) = Cat(u, v) <=> u = Part(s, i, i + a - 1) /\ v = Part(s, i + a, j)
  BY DEF Split
<1> DEFINE w == Part(s, i, j)
           p == Part(s, i, i + a - 1)
           q == Part(s, i + a, j)
<1>1. /\ w \in Seq(Tokens) /\ Len(w) = a + b
      /\ \A k \in 1 .. a + b : w[k] = s[i + k - 1]
  BY PartOf DEF Words, Part
<1>2. /\ p \in Seq(Tokens) /\ Len(p) = a /\ \A k \in 1 .. a : p[k] = s[i + k - 1]
  <2>1. i + a - 1 \in Nat /\ i <= (i + a - 1) + 1 /\ i + a - 1 <= Len(s)
        /\ (i + a - 1) - i + 1 = a
    OBVIOUS
  <2> QED BY <2>1, PartOf DEF Words, Part
<1>3. /\ q \in Seq(Tokens) /\ Len(q) = b /\ \A k \in 1 .. b : q[k] = s[i + a + k - 1]
  <2>1. i + a \in Nat /\ 1 <= i + a /\ i + a <= j + 1 /\ j - (i + a) + 1 = b
    OBVIOUS
  <2> QED BY <2>1, PartOf DEF Words, Part
<1>4. u \in Seq(Tokens) /\ Len(u) = a /\ v \in Seq(Tokens) /\ Len(v) = b
  BY DEF Words
<1>5. /\ Cat(u, v) \in Seq(Tokens) /\ Len(Cat(u, v)) = a + b
      /\ \A k \in 1 .. a + b : Cat(u, v)[k] = IF k <= a THEN u[k] ELSE v[k - a]
  <2>1. /\ Cat(u, v) \in Seq(Tokens) /\ Len(Cat(u, v)) = Len(u) + Len(v)
        /\ \A k \in 1 .. Len(u) + Len(v) : Cat(u, v)[k] = IF k <= Len(u) THEN u[k] ELSE v[k - Len(u)]
    BY <1>4, ConcatProperties DEF Cat
  <2> QED BY <1>4, <2>1
<1> DEFINE both == Cat(u, v)
<1> HIDE DEF w, p, q, both
<1>6. ASSUME w = both PROVE u = p /\ v = q
  <2>1. \A k \in 1 .. a : u[k] = p[k]
    <3>1. ASSUME NEW k \in 1 .. a PROVE u[k] = p[k]
      <4>1. k \in 1 .. a + b /\ k <= a
        OBVIOUS
      <4> QED BY <1>1, <1>2, <1>5, <1>6, <4>1 DEF both
    <3> QED BY <3>1
  <2>2. \A k \in 1 .. b : v[k] = q[k]
    <3>1. ASSUME NEW k \in 1 .. b PROVE v[k] = q[k]
      <4>1. a + k \in 1 .. a + b /\ ~ (a + k <= a) /\ (a + k) - a = k
            /\ i + (a + k) - 1 = i + a + k - 1
        OBVIOUS
      <4>2. both[a + k] = v[k]
        BY <1>5, <4>1 DEF both
      <4>3. w[a + k] = s[i + a + k - 1]
        BY <1>1, <4>1
      <4> QED BY <1>3, <1>6, <4>2, <4>3
    <3> QED BY <3>1
  <2> QED BY <1>2, <1>3, <1>4, <2>1, <2>2, SeqEqual
<1>7. ASSUME u = p, v = q PROVE w = both
  <2>1. \A k \in 1 .. a + b : w[k] = both[k]
    <3>1. ASSUME NEW k \in 1 .. a + b PROVE w[k] = both[k]
      <4>1. CASE k <= a
        <5>1. k \in 1 .. a
          BY <4>1
        <5>2. both[k] = u[k]
          BY <1>5, <4>1 DEF both
        <5> QED BY <1>1, <1>2, <1>7, <5>1, <5>2
      <4>2. CASE ~ (k <= a)
        <5>1. k - a \in 1 .. b /\ i + a + (k - a) - 1 = i + k - 1
          BY <4>2
        <5> QED BY <1>1, <1>3, <1>5, <1>7, <4>2, <5>1 DEF both
      <4> QED BY <4>1, <4>2
    <3> QED BY <3>1
  <2> QED BY <1>1, <1>5, <2>1, SeqEqual DEF both
<1> QED BY <1>6, <1>7 DEF w, p, q, both

ThreeSplit(s, i, j, a, b, c) ==
    /\ s \in Seq(Tokens)
    /\ i \in Nat /\ j \in Nat /\ 1 <= i /\ j <= Len(s)
    /\ a \in Nat /\ b \in Nat /\ c \in Nat /\ a + b + c = j - i + 1

LEMMA ThreeParts ==
    \A s, i, j, a, b, c, u, v, w :
        ThreeSplit(s, i, j, a, b, c) /\ u \in Words(a) /\ v \in Words(b) /\ w \in Words(c) =>
            (Part(s, i, j) = Cat(Cat(u, v), w) <=>
                /\ u = Part(s, i, i + a - 1)
                /\ v = Part(s, i + a, i + a + b - 1)
                /\ w = Part(s, i + a + b, j))
<1> SUFFICES ASSUME NEW s, NEW i, NEW j, NEW a, NEW b, NEW c, ThreeSplit(s, i, j, a, b, c),
                    NEW u \in Words(a), NEW v \in Words(b), NEW w \in Words(c)
             PROVE  Part(s, i, j) = Cat(Cat(u, v), w) <=>
                      /\ u = Part(s, i, i + a - 1)
                      /\ v = Part(s, i + a, i + a + b - 1)
                      /\ w = Part(s, i + a + b, j)
  OBVIOUS
<1>1. PICK k \in Nat, ab \in Nat :
        /\ k = i + a + b - 1 /\ ab = a + b
        /\ i + ab - 1 = k /\ i + ab = i + a + b
        /\ Split(s, i, k, a, b) /\ Split(s, i, j, ab, c)
        /\ a \in Nat /\ b \in Nat
  BY DEF Split, ThreeSplit
<1>2. Cat(u, v) \in Words(ab)
  BY <1>1, CatWords
<1>3. Part(s, i, k) = Cat(u, v) <=> u = Part(s, i, i + a - 1) /\ v = Part(s, i + a, k)
  BY <1>1, TwoParts
<1>4. Part(s, i, j) = Cat(Cat(u, v), w) <=>
        Cat(u, v) = Part(s, i, i + ab - 1) /\ w = Part(s, i + ab, j)
  BY <1>1, <1>2, TwoParts
<1> QED BY <1>1, <1>3, <1>4

LEMMA JoinedCats ==
    ASSUME NEW lefts, NEW middle, NEW rights
    PROVE  \A word : word \in Joined(lefts, middle, rights) <=>
                       \E left \in lefts, right \in rights : word = Cat(Cat(left, middle), right)
BY SMT DEF Joined, Cat

LEMMA AroundAt ==
    ASSUME NEW s \in Seq(Tokens), NEW i \in Nat, NEW j \in Nat, 1 <= i, i < j, j <= Len(s),
           NEW open \in Tokens, NEW close \in Tokens,
           NEW insides, insides \subseteq Words(j - i - 1)
    PROVE  Part(s, i, j) \in Around(open, insides, close) <=>
             s[i] = open /\ s[j] = close /\ Part(s, i + 1, j - 1) \in insides
<1> DEFINE u == <<open>>
           w == <<close>>
           m == j - i - 1
<1>1. u \in Words(1) /\ w \in Words(1)
  BY SingleWord DEF Words
<1>2. /\ Part(s, i, i) = u <=> s[i] = open
      /\ Part(s, j, j) = w <=> s[j] = close
  BY PartOfOne DEF Part
<1>3. Part(s, i, j) \in Around(open, insides, close) <=>
        \E v \in insides : Part(s, i, j) = Cat(Cat(u, v), w)
  BY Zenon DEF Around, Cat, u, w
<1> HIDE DEF u, w
<1>4. /\ m \in Nat /\ 1 \in Nat /\ 1 + m + 1 = j - i + 1 /\ i + 1 - 1 = i
      /\ i + 1 + m - 1 = j - 1 /\ i + 1 + m = j
  OBVIOUS
<1>5. insides \subseteq Words(m) /\ ThreeSplit(s, i, j, 1, m, 1)
  BY DEF ThreeSplit
<1> HIDE DEF m
<1>6. ASSUME NEW v \in insides
      PROVE  Part(s, i, j) = Cat(Cat(u, v), w) <=>
               s[i] = open /\ v = Part(s, i + 1, j - 1) /\ s[j] = close
  <2>1. v \in Words(m)
    BY <1>5
  <2>2. Part(s, i, j) = Cat(Cat(u, v), w) <=>
             /\ u = Part(s, i, i + 1 - 1)
             /\ v = Part(s, i + 1, i + 1 + m - 1)
             /\ w = Part(s, i + 1 + m, j)
    BY <1>1, <1>4, <1>5, <2>1, ThreeParts
  <2> QED BY <1>2, <1>4, <2>2
<1> QED BY <1>3, <1>6

LEMMA JoinedAt ==
    \A s, i, j, k, m, token, lefts, rights :
        /\ ThreeSplit(s, i, j, k, 1, m) /\ token \in Tokens
        /\ lefts \subseteq Words(k) /\ rights \subseteq Words(m)
        => (Part(s, i, j) \in Joined(lefts, <<token>>, rights) <=>
               /\ Part(s, i, i + k - 1) \in lefts
               /\ s[i + k] = token
               /\ Part(s, i + k + 1, j) \in rights)
<1> SUFFICES ASSUME NEW s, NEW i, NEW j, NEW k, NEW m, NEW token, NEW lefts, NEW rights,
                    ThreeSplit(s, i, j, k, 1, m), token \in Tokens,
                    lefts \subseteq Words(k), rights \subseteq Words(m)
             PROVE  Part(s, i, j) \in Joined(lefts, <<token>>, rights) <=>
                      /\ Part(s, i, i + k - 1) \in lefts
                      /\ s[i + k] = token
                      /\ Part(s, i + k + 1, j) \in rights
  OBVIOUS
<1> DEFINE v == <<token>>
<1>1. v \in Words(1)
  BY SingleWord DEF Words
<1>2. /\ s \in Seq(Tokens) /\ i + k \in 1 .. Len(s)
      /\ i + k + 1 - 1 = i + k
  BY DEF ThreeSplit
<1>3. Part(s, i + k, i + k) = v <=> s[i + k] = token
  BY <1>2, PartOfOne DEF Part
<1> HIDE DEF v
<1>4. ASSUME NEW u \in lefts, NEW w \in rights
      PROVE  Part(s, i, j) = Cat(Cat(u, v), w) <=>
               u = Part(s, i, i + k - 1) /\ s[i + k] = token /\ w = Part(s, i + k + 1, j)
  <2>1. u \in Words(k) /\ w \in Words(m)
    OBVIOUS
  <2>2. Part(s, i, j) = Cat(Cat(u, v), w) <=>
             /\ u = Part(s, i, i + k - 1)
             /\ v = Part(s, i + k, i + k + 1 - 1)
             /\ w = Part(s, i + k + 1, j)
    BY <1>1, <2>1, ThreeParts
  <2> QED BY <1>2, <1>3, <2>2
<1>5. Part(s, i, j) \in Joined(lefts, v, rights) <=>
        \E u \in lefts, w \in rights : Part(s, i, j) = Cat(Cat(u, v), w)
  BY JoinedCats, SMTT(30)
<1> QED BY <1>4, <1>5 DEF v

(* What stands from i to j is a value, elements, a member, members.        *)
ValueAt(s, i, j) == i <= j /\ Part(s, i, j) \in Grammar[j - i + 1].value
ElementsAt(s, i, j) == i <= j /\ Part(s, i, j) \in Grammar[j - i + 1].elements
MemberAt(s, i, j) == i + 2 <= j /\ s[i] = "string" /\ s[i + 1] = ":" /\ ValueAt(s, i + 2, j)
MembersAt(s, i, j) == i <= j /\ Part(s, i, j) \in Grammar[j - i + 1].members

LEMMA PunctuationIsToken ==
    \A token \in {"{", "}", "[", "]", ":", ",", "string"} : token \in Tokens
BY DEF Tokens, Scalars

LEMMA ValueRule ==
    \A s, i, j : Within(s, i, j) =>
        (ValueAt(s, i, j) <=>
            \/ i = j /\ s[i] \in Scalars
            \/ i < j /\ s[i] = "[" /\ s[j] = "]" /\ (j = i + 1 \/ ElementsAt(s, i + 1, j - 1))
            \/ i < j /\ s[i] = "{" /\ s[j] = "}" /\ (j = i + 1 \/ MembersAt(s, i + 1, j - 1)))
<1> SUFFICES ASSUME NEW s \in Seq(Tokens), NEW i \in Nat, NEW j \in Nat, 1 <= i, j <= Len(s)
    PROVE  ValueAt(s, i, j) <=>
             \/ i = j /\ s[i] \in Scalars
             \/ i < j /\ s[i] = "[" /\ s[j] = "]" /\ (j = i + 1 \/ ElementsAt(s, i + 1, j - 1))
             \/ i < j /\ s[i] = "{" /\ s[j] = "}" /\ (j = i + 1 \/ MembersAt(s, i + 1, j - 1))
  BY DEF Within
<1>1. CASE i > j
  <2>1. ~ (i <= j) /\ i # j /\ ~ (i < j)
    BY <1>1
  <2> QED BY <2>1, Zenon DEF ValueAt
<1>2. CASE i = j
  <2>1. Grammar[1].value = {<<token>> : token \in Scalars}
    <3>1. Grammar[1].value = ValuesOf(Grammar, 1)
      BY GrammarFields
    <3> QED BY <3>1, Zenon DEF ValuesOf
  <2>2. i \in 1 .. Len(s) /\ j - i + 1 = 1 /\ i <= j /\ ~ (i < j)
    BY <1>2
  <2>3. \A token \in Scalars : Part(s, i, i) = <<token>> <=> s[i] = token
    BY <2>2, PartOfOne DEF Tokens, Part
  <2>4. ValueAt(s, i, j) <=> Part(s, i, i) \in {<<token>> : token \in Scalars}
    BY <1>2, <2>1, <2>2, Zenon DEF ValueAt
  <2>5. Part(s, i, i) \in {<<token>> : token \in Scalars} <=> s[i] \in Scalars
    BY <2>3, Zenon
  <2> QED BY <1>2, <2>2, <2>4, <2>5
<1>3. CASE j = i + 1
  <2>1. Grammar[2].value = {<<"[", "]">>, <<"{", "}">>}
    <3>1. Grammar[2].value = ValuesOf(Grammar, 2)
      BY GrammarFields
    <3>2. 2 # 1
      OBVIOUS
    <3> QED BY <3>1, <3>2, Zenon DEF ValuesOf
  <2>2. j - i + 1 = 2 /\ i + 1 <= Len(s) /\ i < j /\ i # j /\ i <= j
    BY <1>3
  <2>3. \A t1, t2 \in Tokens : Part(s, i, j) = Pair(t1, t2) <=> s[i] = t1 /\ s[j] = t2
    <3> TAKE t1, t2 \in Tokens
    <3>1. Split(s, i, j, 1, 1)
      BY <1>3 DEF Split
    <3> QED BY <3>1, PartOfTwo
  <2>4. /\ Part(s, i, j) = <<"[", "]">> <=> s[i] = "[" /\ s[j] = "]"
        /\ Part(s, i, j) = <<"{", "}">> <=> s[i] = "{" /\ s[j] = "}"
    BY <1>3, <2>3, PunctuationIsToken, Zenon DEF Pair
  <2>5. ValueAt(s, i, j) <=> Part(s, i, j) = <<"[", "]">> \/ Part(s, i, j) = <<"{", "}">>
    BY <2>1, <2>2, Zenon DEF ValueAt
  <2> QED BY <1>3, <2>2, <2>4, <2>5, Zenon
<1>4. CASE j > i + 1
  <2>1. PICK n \in Nat : /\ n = j - i + 1 /\ n > 2 /\ n # 1 /\ n # 2 /\ n - 2 = j - i - 1
                         /\ n - 2 \in Nat /\ n - 2 = (j - 1) - (i + 1) + 1
                         /\ i + 1 <= j - 1 /\ i <= j /\ i < j /\ i # j /\ j # i + 1
    BY <1>4
  <2> DEFINE elements == Grammar[n - 2].elements
             members == Grammar[n - 2].members
  <2>2. Grammar[n].value = Around("[", elements, "]") \cup Around("{", members, "}")
    <3>1. Grammar[n].value = ValuesOf(Grammar, n)
      BY GrammarFields
    <3> QED BY <2>1, <3>1, Zenon DEF ValuesOf
  <2>3. PhrasesAreWords(n - 2)
    BY <2>1, GrammarTyped
  <2>4. /\ elements \subseteq Words(j - i - 1)
        /\ members \subseteq Words(j - i - 1)
    BY <2>1, <2>3 DEF PhrasesAreWords
  <2>5. /\ ElementsAt(s, i + 1, j - 1) <=> Part(s, i + 1, j - 1) \in elements
        /\ MembersAt(s, i + 1, j - 1) <=> Part(s, i + 1, j - 1) \in members
    BY <2>1, Zenon DEF ElementsAt, MembersAt
  <2> HIDE DEF elements, members
  <2>6. ValueAt(s, i, j) <=> \/ Part(s, i, j) \in Around("[", elements, "]")
                             \/ Part(s, i, j) \in Around("{", members, "}")
    BY <2>1, <2>2, Zenon DEF ValueAt
  <2>7. "[" \in Tokens /\ "]" \in Tokens /\ "{" \in Tokens /\ "}" \in Tokens
    BY DEF Tokens
  <2>8. /\ Part(s, i, j) \in Around("[", elements, "]") <=>
              s[i] = "[" /\ s[j] = "]" /\ Part(s, i + 1, j - 1) \in elements
        /\ Part(s, i, j) \in Around("{", members, "}") <=>
              s[i] = "{" /\ s[j] = "}" /\ Part(s, i + 1, j - 1) \in members
    BY <2>1, <2>4, <2>7, AroundAt
  <2> QED BY <2>1, <2>5, <2>6, <2>8, Zenon
<1>5. i > j \/ i = j \/ j = i + 1 \/ j > i + 1
  OBVIOUS
<1> QED BY <1>1, <1>2, <1>3, <1>4, <1>5, Zenon

LEMMA MembersOfAt ==
    \A s, i, j, n : Within(s, i, j) /\ n = j - i + 1 =>
        (Part(s, i, j) \in MembersOf(Grammar, n) <=> MemberAt(s, i, j))
<1> SUFFICES ASSUME NEW s \in Seq(Tokens), NEW i \in Nat, NEW j \in Nat, 1 <= i, j <= Len(s),
                    NEW n, n = j - i + 1
             PROVE  Part(s, i, j) \in MembersOf(Grammar, n) <=> MemberAt(s, i, j)
  BY DEF Within
<1>1. CASE n > 2
  <2> DEFINE head == <<"string", ":">>
  <2>1. MembersOf(Grammar, n) = {Cat(head, value) : value \in Grammar[n - 2].value}
    BY <1>1, Zenon DEF MembersOf, Cat
  <2>2. "string" \in Tokens /\ ":" \in Tokens
    BY PunctuationIsToken
  <2>3. /\ head \in Words(2)
        /\ Part(s, i, i + 1) = head <=> s[i] = "string" /\ s[i + 1] = ":"
    <3>1. PICK k \in Nat : k = i + 1 /\ Split(s, i, k, 1, 1)
      BY <1>1 DEF Split
    <3>2. Pair("string", ":") \in Words(2)
      BY <2>2, PairWords
    <3>3. Part(s, i, k) = Pair("string", ":") <=> s[i] = "string" /\ s[k] = ":"
      BY <2>2, <3>1, PartOfTwo
    <3> QED BY <3>1, <3>2, <3>3, Zenon DEF Pair
  <2> HIDE DEF head
  <2>4. PICK m \in Nat : /\ m = n - 2 /\ m = j - (i + 2) + 1 /\ Split(s, i, j, 2, m)
                         /\ i + 2 <= j /\ i + 2 - 1 = i + 1
    BY <1>1 DEF Split
  <2>5. PhrasesAreWords(m)
    BY GrammarTyped
  <2>6. ASSUME NEW value \in Grammar[m].value
        PROVE  Part(s, i, j) = Cat(head, value) <=>
                 s[i] = "string" /\ s[i + 1] = ":" /\ value = Part(s, i + 2, j)
    <3>1. value \in Words(m)
      BY <2>5 DEF PhrasesAreWords
    <3>2. Part(s, i, j) = Cat(head, value) <=>
            head = Part(s, i, i + 2 - 1) /\ value = Part(s, i + 2, j)
      BY <2>3, <2>4, <3>1, TwoParts
    <3> QED BY <2>3, <2>4, <3>2
  <2>7. Part(s, i, j) \in MembersOf(Grammar, n) <=>
          s[i] = "string" /\ s[i + 1] = ":" /\ Part(s, i + 2, j) \in Grammar[m].value
    BY <2>1, <2>4, <2>6, Zenon
  <2> QED BY <2>4, <2>7, Zenon DEF MemberAt, ValueAt
<1>2. CASE ~ (n > 2)
  <2>1. ~ (i + 2 <= j)
    BY <1>2
  <2> QED BY <1>2, <2>1, Zenon DEF MembersOf, MemberAt
<1> QED BY <1>1, <1>2, Zenon

LEMMA ListAt ==
    ASSUME NEW s \in Seq(Tokens), NEW i \in Nat, NEW j \in Nat, 1 <= i, j <= Len(s),
           NEW n \in Nat, n = j - i + 1, NEW k \in 1 .. n - 2,
           NEW firsts, firsts \subseteq Words(k),
           NEW rests, rests \subseteq Words(n - 1 - k)
    PROVE  Part(s, i, j) \in Joined(firsts, <<",">>, rests) <=>
             /\ Part(s, i, i + k - 1) \in firsts
             /\ s[i + k] = ","
             /\ Part(s, i + k + 1, j) \in rests
<1>1. PICK m \in Nat : m = n - 1 - k /\ k \in Nat /\ ThreeSplit(s, i, j, k, 1, m)
  BY DEF ThreeSplit
<1>2. PICK token \in Tokens : token = ","
  BY PunctuationIsToken
<1>3. rests \subseteq Words(m)
  BY <1>1
<1>4. Part(s, i, j) \in Joined(firsts, <<token>>, rests) <=>
        /\ Part(s, i, i + k - 1) \in firsts
        /\ s[i + k] = token
        /\ Part(s, i + k + 1, j) \in rests
  BY <1>1, <1>3, JoinedAt
<1> QED BY <1>2, <1>4, Zenon

LEMMA ElementsRule ==
    \A s, i, j : Within(s, i, j) =>
        (ElementsAt(s, i, j) <=>
            \/ ValueAt(s, i, j)
            \/ \E k \in i .. j - 2 : ValueAt(s, i, k) /\ s[k + 1] = "," /\ ElementsAt(s, k + 2, j))
<1> SUFFICES ASSUME NEW s \in Seq(Tokens), NEW i \in Nat, NEW j \in Nat, 1 <= i, j <= Len(s)
    PROVE  ElementsAt(s, i, j) <=>
            \/ ValueAt(s, i, j)
            \/ \E k \in i .. j - 2 : ValueAt(s, i, k) /\ s[k + 1] = "," /\ ElementsAt(s, k + 2, j)
  BY DEF Within
<1>1. CASE i > j
  <2>1. ~ (i <= j) /\ \A k \in i .. j - 2 : FALSE
    BY <1>1
  <2> QED BY <2>1, Zenon DEF ElementsAt, ValueAt
<1>2. CASE i <= j
  <2>1. PICK n \in Nat : n = j - i + 1
    BY <1>2
  <2>2. Grammar[n].elements =
          Grammar[n].value \cup UNION {ElementsWith(k, n) : k \in 1 .. n - 2}
    BY GrammarFields
  <2>3. ASSUME NEW k \in 1 .. n - 2
        PROVE  /\ i + k - 1 \in i .. j - 2
               /\ Part(s, i, j) \in ElementsWith(k, n) <=>
                    /\ ValueAt(s, i, i + k - 1)
                    /\ s[i + k - 1 + 1] = ","
                    /\ ElementsAt(s, i + k - 1 + 2, j)
    <3>1. /\ k \in Nat /\ n - 1 - k \in Nat /\ i + k - 1 \in i .. j - 2
          /\ (i + k - 1) - i + 1 = k /\ j - (i + k - 1 + 2) + 1 = n - 1 - k
          /\ i <= i + k - 1 /\ i + k - 1 + 2 <= j
          /\ i + k - 1 + 1 = i + k /\ i + k - 1 + 2 = i + k + 1
      BY <2>1
    <3>2. PhrasesAreWords(k) /\ PhrasesAreWords(n - 1 - k)
      BY <3>1, GrammarTyped
    <3>3. Part(s, i, j) \in ElementsWith(k, n) <=>
             /\ Part(s, i, i + k - 1) \in Grammar[k].value
             /\ s[i + k] = ","
             /\ Part(s, i + k + 1, j) \in Grammar[n - 1 - k].elements
      BY <2>1, <3>2, ListAt, Zenon DEF ElementsWith, PhrasesAreWords
    <3> QED BY <3>1, <3>3, Zenon DEF ValueAt, ElementsAt
  <2>4. ASSUME NEW k \in i .. j - 2
        PROVE  \E m \in 1 .. n - 2 : k = i + m - 1
    <3>1. k - i + 1 \in 1 .. n - 2 /\ k = i + (k - i + 1) - 1
      BY <2>1
    <3> QED BY <3>1
  <2>5. ElementsAt(s, i, j) <=>
          \/ Part(s, i, j) \in Grammar[n].value
          \/ \E k \in 1 .. n - 2 : Part(s, i, j) \in ElementsWith(k, n)
    <3>1. ElementsAt(s, i, j) <=> Part(s, i, j) \in Grammar[n].elements
      BY <1>2, <2>1, Zenon DEF ElementsAt
    <3>2. \A word : word \in UNION {ElementsWith(k, n) : k \in 1 .. n - 2} <=>
                       \E k \in 1 .. n - 2 : word \in ElementsWith(k, n)
      BY Zenon
    <3> QED BY <2>2, <3>1, <3>2, Zenon
  <2>6. ValueAt(s, i, j) <=> Part(s, i, j) \in Grammar[n].value
    BY <1>2, <2>1, Zenon DEF ValueAt
  <2> QED BY <2>3, <2>4, <2>5, <2>6, Zenon
<1>3. i > j \/ i <= j
  OBVIOUS
<1> QED BY <1>1, <1>2, <1>3, Zenon

LEMMA MembersRule ==
    \A s, i, j : Within(s, i, j) =>
        (MembersAt(s, i, j) <=>
            \/ MemberAt(s, i, j)
            \/ \E k \in i .. j - 2 : MemberAt(s, i, k) /\ s[k + 1] = "," /\ MembersAt(s, k + 2, j))
<1> SUFFICES ASSUME NEW s \in Seq(Tokens), NEW i \in Nat, NEW j \in Nat, 1 <= i, j <= Len(s)
    PROVE  MembersAt(s, i, j) <=>
            \/ MemberAt(s, i, j)
            \/ \E k \in i .. j - 2 : MemberAt(s, i, k) /\ s[k + 1] = "," /\ MembersAt(s, k + 2, j)
  BY DEF Within
<1>1. CASE i > j
  <2>1. ~ (i <= j) /\ ~ (i + 2 <= j) /\ \A k \in i .. j - 2 : FALSE
    BY <1>1
  <2> QED BY <2>1, Zenon DEF MembersAt, MemberAt
<1>2. CASE i <= j
  <2>1. PICK n \in Nat : n = j - i + 1
    BY <1>2
  <2>2. Grammar[n].members =
          MembersOf(Grammar, n) \cup UNION {MembersWith(k, n) : k \in 1 .. n - 2}
    BY GrammarFields
  <2>3. ASSUME NEW k \in 1 .. n - 2
        PROVE  /\ i + k - 1 \in i .. j - 2
               /\ Part(s, i, j) \in MembersWith(k, n) <=>
                    /\ MemberAt(s, i, i + k - 1)
                    /\ s[i + k - 1 + 1] = ","
                    /\ MembersAt(s, i + k - 1 + 2, j)
    <3>1. /\ k \in Nat /\ n - 1 - k \in Nat /\ i + k - 1 \in i .. j - 2
          /\ k = (i + k - 1) - i + 1 /\ j - (i + k - 1 + 2) + 1 = n - 1 - k
          /\ i + k - 1 + 2 <= j
          /\ i + k - 1 + 1 = i + k /\ i + k - 1 + 2 = i + k + 1
          /\ i + k - 1 \in Nat /\ i + k - 1 <= Len(s)
      BY <2>1
    <3>2. PhrasesAreWords(k) /\ PhrasesAreWords(n - 1 - k)
      BY <3>1, GrammarTyped
    <3>3. MembersOf(Grammar, k) \subseteq Words(k)
      <4>1. k > 2 => PhrasesAreWords(k - 2)
        BY GrammarTyped
      <4> QED BY <3>1, <4>1, MembersAreWords
    <3>4. Part(s, i, j) \in MembersWith(k, n) <=>
             /\ Part(s, i, i + k - 1) \in MembersOf(Grammar, k)
             /\ s[i + k] = ","
             /\ Part(s, i + k + 1, j) \in Grammar[n - 1 - k].members
      BY <2>1, <3>2, <3>3, ListAt, Zenon DEF MembersWith, PhrasesAreWords
    <3>5. Part(s, i, i + k - 1) \in MembersOf(Grammar, k) <=> MemberAt(s, i, i + k - 1)
      <4>1. Within(s, i, i + k - 1)
        BY <3>1 DEF Within
      <4> QED BY <3>1, <4>1, MembersOfAt, Zenon
    <3> QED BY <3>1, <3>4, <3>5, Zenon DEF MembersAt
  <2>4. ASSUME NEW k \in i .. j - 2
        PROVE  \E m \in 1 .. n - 2 : k = i + m - 1
    <3>1. k - i + 1 \in 1 .. n - 2 /\ k = i + (k - i + 1) - 1
      BY <2>1
    <3> QED BY <3>1
  <2>5. MembersAt(s, i, j) <=>
          \/ Part(s, i, j) \in MembersOf(Grammar, n)
          \/ \E k \in 1 .. n - 2 : Part(s, i, j) \in MembersWith(k, n)
    <3>1. MembersAt(s, i, j) <=> Part(s, i, j) \in Grammar[n].members
      BY <1>2, <2>1, Zenon DEF MembersAt
    <3>2. \A word : word \in UNION {MembersWith(k, n) : k \in 1 .. n - 2} <=>
                       \E k \in 1 .. n - 2 : word \in MembersWith(k, n)
      BY Zenon
    <3> QED BY <2>2, <3>1, <3>2, Zenon
  <2>6. Part(s, i, j) \in MembersOf(Grammar, n) <=> MemberAt(s, i, j)
    <3>1. Within(s, i, j)
      BY DEF Within
    <3> QED BY <2>1, <3>1, MembersOfAt, Zenon
  <2> QED BY <2>3, <2>4, <2>5, <2>6, Zenon
<1>3. i > j \/ i <= j
  OBVIOUS
<1> QED BY <1>1, <1>2, <1>3, Zenon

-----------------------------------------------------------------------------
(* What the parser still has to see.  T is a whole text, up to its "end";  *)
(* the parser has read it up to the token before p.                        *)

(* A value in an open container of this kind has ended before p: what can  *)
(* follow until the container closes at q.                                 *)
After(T, kind, p, q) ==
    \/ p = q
    \/ kind = "array" /\ T[p] = "," /\ ElementsAt(T, p + 1, q - 1)
    \/ kind = "object" /\ T[p] = "," /\ MembersAt(T, p + 1, q - 1)

ValueAhead(T, kind, p, q) ==
    \E m \in p .. q - 1 : ValueAt(T, p, m) /\ After(T, kind, m + 1, q)

(* What can follow at a place in the loop, the innermost container being   *)
(* of this kind and closing at q.                                          *)
Ahead(T, place, kind, p, q) ==
    \/ place = "value" /\ ValueAhead(T, kind, p, q)
    \/ place = "firstElement" /\ (p = q \/ ElementsAt(T, p, q - 1))
    \/ place = "firstKey" /\ (p = q \/ MembersAt(T, p, q - 1))
    \/ place = "key" /\ MembersAt(T, p, q - 1)
    \/ place \in {"firstColon", "colon"} /\ T[p] = ":" /\ ValueAhead(T, kind, p + 1, q)
    \/ place \in {"arrayNext", "objectNext", "end"} /\ After(T, kind, p, q)
    \/ place = "accepted" /\ p = q + 1

KindIn(stack, i) == IF i = 0 THEN "top" ELSE stack[i].kind

Closer(kind) == IF kind = "array" THEN "]" ELSE IF kind = "object" THEN "}" ELSE "end"

(* e says where what is open closes, and each of them may go on after the  *)
(* one in it has closed.                                                   *)
Closes(T, stack, e) ==
    /\ e \in [0 .. Len(stack) -> 1 .. Len(T)]
    /\ e[0] = Len(T)
    /\ \A i \in 1 .. Len(stack) :
          /\ T[e[i]] = Closer(stack[i].kind)
          /\ After(T, KindIn(stack, i - 1), e[i] + 1, e[i - 1])

Foreseen(T, place, stack, p) ==
    \E e : /\ Closes(T, stack, e)
           /\ Ahead(T, place, KindIn(stack, Len(stack)), p, e[Len(stack)])

Complete(T) == T \in Seq(Tokens) /\ Len(T) > 0 /\ T[Len(T)] = "end"

Begins(s, T) == Len(s) <= Len(T) /\ \A i \in 1 .. Len(s) : T[i] = s[i]

(* Whatever comes, the text will turn out to be a document exactly if what *)
(* is still to be seen is what the parser waits for.                       *)
Foretold ==
    \A T : Complete(T) /\ Begins(text, T) =>
        (ValueAt(T, 1, Len(T) - 1) <=> Foreseen(T, expects, ref_stack, Len(text) + 1))

Ended == expects = "accepted" => ref_stack = <<>> /\ Len(text) > 0 /\ text[Len(text)] = "end"

(* What phrases begin with.                                                *)
Starts == Scalars \cup {"[", "{"}

LEMMA ValueStarts ==
    \A s, i, j : Within(s, i, j) /\ ValueAt(s, i, j) => s[i] \in Starts
<1> SUFFICES ASSUME NEW s, NEW i, NEW j, Within(s, i, j), ValueAt(s, i, j) PROVE s[i] \in Starts
  OBVIOUS
<1>1. s[i] \in Scalars \/ s[i] = "[" \/ s[i] = "{"
  BY ValueRule, Zenon
<1> QED BY <1>1 DEF Starts

LEMMA ElementsStarts ==
    \A s, i, j : Within(s, i, j) /\ ElementsAt(s, i, j) => s[i] \in Starts
<1> SUFFICES ASSUME NEW s, NEW i, NEW j, Within(s, i, j), ElementsAt(s, i, j)
             PROVE  s[i] \in Starts
  OBVIOUS
<1>1. CASE ValueAt(s, i, j)
  BY <1>1, ValueStarts
<1>2. CASE \E k \in i .. j - 2 : ValueAt(s, i, k)
  <2>1. PICK k \in i .. j - 2 : ValueAt(s, i, k)
    BY <1>2
  <2>2. Within(s, i, k)
    BY <2>1 DEF Within
  <2> QED BY <2>1, <2>2, ValueStarts
<1> QED BY <1>1, <1>2, ElementsRule, Zenon

LEMMA MembersStarts ==
    \A s, i, j : Within(s, i, j) /\ MembersAt(s, i, j) => s[i] = "string"
BY MembersRule, Zenon DEF MemberAt

LEMMA AtBounds ==
    \A s, i, j : /\ ElementsAt(s, i, j) => i <= j
                 /\ MembersAt(s, i, j) => i <= j
                 /\ MemberAt(s, i, j) => i + 2 <= j
BY Zenon DEF ElementsAt, MembersAt, MemberAt

LEMMA AfterBound ==
    ASSUME NEW T, NEW kind, NEW p \in Nat, NEW q \in Nat, After(T, kind, p, q)
    PROVE  p <= q
<1>1. CASE ElementsAt(T, p + 1, q - 1) \/ MembersAt(T, p + 1, q - 1)
  <2>1. p + 1 <= q - 1
    BY <1>1, AtBounds, Zenon
  <2> QED BY <2>1
<1>2. p = q => p <= q
  OBVIOUS
<1> QED BY <1>1, <1>2, Zenon DEF After

LEMMA ElementsAhead ==
    ASSUME NEW T \in Seq(Tokens), NEW p \in 1 .. Len(T) + 1, NEW q \in 1 .. Len(T)
    PROVE  ElementsAt(T, p, q - 1) <=> ValueAhead(T, "array", p, q)
<1>1. Within(T, p, q - 1)
  BY DEF Within
<1>2. ASSUME ValueAt(T, p, q - 1) PROVE ValueAhead(T, "array", p, q)
  <2>1. PICK m \in Nat : m = q - 1 /\ m + 1 = q /\ m \in p .. q - 1
    BY <1>2 DEF ValueAt
  <2>2. After(T, "array", m + 1, q)
    BY <2>1, Zenon DEF After
  <2> QED BY <1>2, <2>1, <2>2, Zenon DEF ValueAhead
<1>3. ASSUME NEW k \in p .. q - 1 - 2, ValueAt(T, p, k), T[k + 1] = ",",
             ElementsAt(T, k + 2, q - 1)
      PROVE  ValueAhead(T, "array", p, q)
  <2>1. k + 1 + 1 = k + 2 /\ k \in p .. q - 1
    OBVIOUS
  <2>2. After(T, "array", k + 1, q)
    BY <1>3, <2>1, Zenon DEF After
  <2> QED BY <1>3, <2>1, <2>2, Zenon DEF ValueAhead
<1>4. ASSUME NEW m \in p .. q - 1, ValueAt(T, p, m), After(T, "array", m + 1, q)
      PROVE  \/ ValueAt(T, p, q - 1)
             \/ \E k \in p .. q - 1 - 2 :
                    ValueAt(T, p, k) /\ T[k + 1] = "," /\ ElementsAt(T, k + 2, q - 1)
  <2>1. CASE m + 1 = q
    <3>1. m = q - 1
      BY <2>1
    <3> QED BY <1>4, <3>1
  <2>2. CASE T[m + 1] = "," /\ ElementsAt(T, m + 1 + 1, q - 1)
    <3>0. m + 1 + 1 <= q - 1
      BY <2>2, AtBounds, Zenon
    <3>1. m + 1 + 1 = m + 2 /\ m + 2 <= q - 1
      BY <3>0
    <3>2. m \in p .. q - 1 - 2
      BY <3>1
    <3> QED BY <1>4, <2>2, <3>1, <3>2, Zenon
  <2>3. "array" # "object"
    OBVIOUS
  <2> QED BY <1>4, <2>1, <2>2, <2>3, Zenon DEF After
<1> QED BY <1>1, <1>2, <1>3, <1>4, ElementsRule, Zenon DEF ValueAhead

LEMMA MembersAhead ==
    ASSUME NEW T \in Seq(Tokens), NEW p \in 1 .. Len(T) + 1, NEW q \in 1 .. Len(T)
    PROVE  MembersAt(T, p, q - 1) <=>
             T[p] = "string" /\ T[p + 1] = ":" /\ ValueAhead(T, "object", p + 1 + 1, q)
<1>1. Within(T, p, q - 1) /\ p + 1 + 1 = p + 2
  BY DEF Within
<1>2. ASSUME MemberAt(T, p, q - 1)
      PROVE  T[p] = "string" /\ T[p + 1] = ":" /\ ValueAhead(T, "object", p + 1 + 1, q)
  <2>1. PICK m \in Nat : m = q - 1 /\ m + 1 = q /\ m \in p + 1 + 1 .. q - 1
    BY <1>2 DEF MemberAt
  <2>2. After(T, "object", m + 1, q)
    BY <2>1, Zenon DEF After
  <2> QED BY <1>1, <1>2, <2>1, <2>2, Zenon DEF ValueAhead, MemberAt
<1>3. ASSUME NEW k \in p .. q - 1 - 2, MemberAt(T, p, k), T[k + 1] = ",",
             MembersAt(T, k + 2, q - 1)
      PROVE  T[p] = "string" /\ T[p + 1] = ":" /\ ValueAhead(T, "object", p + 1 + 1, q)
  <2>0. p + 2 <= k
    BY <1>3, AtBounds, Zenon
  <2>1. k + 1 + 1 = k + 2 /\ k \in p + 1 + 1 .. q - 1
    BY <2>0
  <2>2. After(T, "object", k + 1, q)
    BY <1>3, <2>1, Zenon DEF After
  <2> QED BY <1>1, <1>3, <2>1, <2>2, Zenon DEF ValueAhead, MemberAt
<1>4. ASSUME NEW m \in p + 1 + 1 .. q - 1, ValueAt(T, p + 1 + 1, m),
             After(T, "object", m + 1, q), T[p] = "string", T[p + 1] = ":"
      PROVE  \/ MemberAt(T, p, q - 1)
             \/ \E k \in p .. q - 1 - 2 :
                    MemberAt(T, p, k) /\ T[k + 1] = "," /\ MembersAt(T, k + 2, q - 1)
  <2>1. p + 2 <= m
    OBVIOUS
  <2>2. MemberAt(T, p, m)
    BY <1>1, <1>4, <2>1, Zenon DEF MemberAt
  <2>3. CASE m + 1 = q
    <3>1. m = q - 1
      BY <2>3
    <3> QED BY <2>2, <3>1
  <2>4. CASE T[m + 1] = "," /\ MembersAt(T, m + 1 + 1, q - 1)
    <3>0. m + 1 + 1 <= q - 1
      BY <2>4, AtBounds, Zenon
    <3>1. m + 1 + 1 = m + 2 /\ m + 2 <= q - 1
      BY <3>0
    <3>2. m \in p .. q - 1 - 2
      BY <3>1
    <3> QED BY <2>2, <2>4, <3>1, <3>2, Zenon
  <2>5. "array" # "object"
    OBVIOUS
  <2> QED BY <1>4, <2>3, <2>4, <2>5, Zenon DEF After
<1> QED BY <1>1, <1>2, <1>3, <1>4, MembersRule, Zenon DEF ValueAhead

LEMMA ScalarAhead ==
    ASSUME NEW T \in Seq(Tokens), NEW kind, NEW p \in 1 .. Len(T), NEW q \in 1 .. Len(T),
           T[p] \in Scalars
    PROVE  ValueAhead(T, kind, p, q) <=> After(T, kind, p + 1, q)
<1>1. T[p] # "[" /\ T[p] # "{"
  BY DEF Scalars
<1>2. ASSUME NEW m \in p .. q - 1
      PROVE  ValueAt(T, p, m) <=> m = p
  <2>1. Within(T, p, m)
    BY DEF Within
  <2> QED BY <1>1, <2>1, ValueRule, Zenon
<1>3. ASSUME After(T, kind, p + 1, q) PROVE p \in p .. q - 1
  <2>1. p + 1 <= q
    BY <1>3, AfterBound
  <2> QED BY <2>1
<1> QED BY <1>2, <1>3, Zenon DEF ValueAhead

LEMMA ArrayAhead ==
    ASSUME NEW T \in Seq(Tokens), NEW kind, NEW p \in 1 .. Len(T), NEW q \in 1 .. Len(T),
           T[p] = "["
    PROVE  ValueAhead(T, kind, p, q) <=>
             \E m \in 1 .. Len(T) :
                /\ T[m] = "]" /\ After(T, kind, m + 1, q)
                /\ (p + 1 = m \/ ElementsAt(T, p + 1, m - 1))
<1>1. T[p] \notin Scalars /\ T[p] # "{"
  BY DEF Scalars
<1>2. ASSUME NEW m \in 1 .. Len(T)
      PROVE  ValueAt(T, p, m) <=>
               p < m /\ T[m] = "]" /\ (m = p + 1 \/ ElementsAt(T, p + 1, m - 1))
  <2>1. Within(T, p, m)
    BY DEF Within
  <2> QED BY <1>1, <2>1, ValueRule, Zenon
<1>3. ASSUME NEW m \in 1 .. Len(T), After(T, kind, m + 1, q),
             p + 1 = m \/ ElementsAt(T, p + 1, m - 1)
      PROVE  m \in p .. q - 1 /\ p < m
  <2>1. m + 1 <= q
    BY <1>3, AfterBound
  <2>0. ASSUME ElementsAt(T, p + 1, m - 1) PROVE p + 1 <= m - 1
    BY <2>0, AtBounds, Zenon
  <2>2. p + 1 <= m
    BY <1>3, <2>0
  <2> QED BY <2>1, <2>2
<1>4. \A m \in p .. q - 1 : m \in 1 .. Len(T)
  OBVIOUS
<1> QED BY <1>2, <1>3, <1>4, Zenon DEF ValueAhead

(* Names for two strings that the SMT translation cannot spell.            *)
LeftBrace == "{"
RightBrace == "}"

LEMMA ObjectAhead ==
    ASSUME NEW T \in Seq(Tokens), NEW kind, NEW p \in 1 .. Len(T), NEW q \in 1 .. Len(T),
           T[p] = LeftBrace
    PROVE  ValueAhead(T, kind, p, q) <=>
             \E m \in 1 .. Len(T) :
                /\ T[m] = RightBrace /\ After(T, kind, m + 1, q)
                /\ (p + 1 = m \/ MembersAt(T, p + 1, m - 1))
<1>1. T[p] \notin Scalars /\ T[p] # "[" /\ T[p] = "{"
  BY Zenon DEF Scalars, LeftBrace
<1>2. ASSUME NEW m \in 1 .. Len(T)
      PROVE  ValueAt(T, p, m) <=>
               p < m /\ T[m] = RightBrace /\ (m = p + 1 \/ MembersAt(T, p + 1, m - 1))
  <2>1. Within(T, p, m)
    BY DEF Within
  <2> QED BY <1>1, <2>1, ValueRule, Zenon DEF RightBrace
<1>3. ASSUME NEW m \in 1 .. Len(T), After(T, kind, m + 1, q),
             p + 1 = m \/ MembersAt(T, p + 1, m - 1)
      PROVE  m \in p .. q - 1 /\ p < m
  <2>1. m + 1 <= q
    BY <1>3, AfterBound
  <2>0. ASSUME MembersAt(T, p + 1, m - 1) PROVE p + 1 <= m - 1
    BY <2>0, AtBounds, Zenon
  <2>2. p + 1 <= m
    BY <1>3, <2>0
  <2> QED BY <2>1, <2>2
<1>4. \A m \in p .. q - 1 : m \in 1 .. Len(T)
  OBVIOUS
<1> QED BY <1>2, <1>3, <1>4, Zenon DEF ValueAhead

LEMMA ClosesAt ==
    ASSUME NEW T, Complete(T), NEW stack, Len(stack) \in Nat, NEW e, Closes(T, stack, e)
    PROVE  /\ e[Len(stack)] \in 1 .. Len(T)
           /\ T[e[Len(stack)]] = Closer(KindIn(stack, Len(stack)))
<1> DEFINE r == Len(stack)
<1>1. /\ e \in [0 .. r -> 1 .. Len(T)] /\ e[0] = Len(T)
      /\ \A i \in 1 .. r : T[e[i]] = Closer(stack[i].kind)
  BY Zenon DEF Closes
<1>2. T[Len(T)] = "end" /\ Closer("top") = "end"
  BY DEF Complete, Closer
<1> HIDE DEF r
<1>3. r \in 0 .. r /\ (r = 0 \/ r \in 1 .. r)
  BY DEF r
<1>4. CASE r = 0
  BY <1>1, <1>2, <1>3, <1>4, Zenon DEF KindIn, r
<1>5. CASE r \in 1 .. r
  <2>1. r # 0
    BY <1>5 DEF r
  <2> QED BY <1>1, <1>3, <1>5, <2>1, Zenon DEF KindIn, r
<1> QED BY <1>3, <1>4, <1>5, Zenon

(* A token that leaves the handler's stack alone.                          *)
LEMMA StackKept ==
    ASSUME NEW T, Complete(T), NEW stack, Len(stack) \in Nat,
           NEW place1, NEW place2, NEW p1, NEW p2,
           \A q \in 1 .. Len(T) :
               T[q] = Closer(KindIn(stack, Len(stack))) =>
                   (Ahead(T, place1, KindIn(stack, Len(stack)), p1, q) <=>
                        Ahead(T, place2, KindIn(stack, Len(stack)), p2, q))
    PROVE  Foreseen(T, place1, stack, p1) <=> Foreseen(T, place2, stack, p2)
BY ClosesAt, Zenon DEF Foreseen

(* A token that puts a container on the handler's stack or takes it off.   *)
Grows(low, high, r) ==
    /\ r \in Nat /\ Len(low) = r /\ Len(high) = r + 1
    /\ \A i \in 1 .. r : high[i] = low[i]

Agrees(T, low, place1, p1, high, place2, p2, r) ==
    \A q \in 1 .. Len(T) :
        T[q] = Closer(KindIn(low, r)) =>
            (Ahead(T, place1, KindIn(low, r), p1, q) <=>
                \E m \in 1 .. Len(T) :
                    /\ T[m] = Closer(high[r + 1].kind)
                    /\ After(T, KindIn(low, r), m + 1, q)
                    /\ Ahead(T, place2, high[r + 1].kind, p2, m))

LEMMA StackGrown ==
    \A T, low, place1, p1, high, place2, p2, r :
        Complete(T) /\ Grows(low, high, r) /\ Agrees(T, low, place1, p1, high, place2, p2, r) =>
            (Foreseen(T, place1, low, p1) <=> Foreseen(T, place2, high, p2))
<1> SUFFICES ASSUME NEW T, NEW low, NEW place1, NEW p1, NEW high, NEW place2, NEW p2, NEW r \in Nat,
                    Complete(T), Grows(low, high, r),
                    Agrees(T, low, place1, p1, high, place2, p2, r)
             PROVE  Foreseen(T, place1, low, p1) <=> Foreseen(T, place2, high, p2)
  BY DEF Grows
<1>0. /\ Len(low) = r /\ Len(high) = r + 1
      /\ \A i \in 1 .. r : high[i] = low[i]
  BY Zenon DEF Grows
<1>1. \A i \in 0 .. r : KindIn(high, i) = KindIn(low, i)
  <2> SUFFICES ASSUME NEW i \in 0 .. r PROVE KindIn(high, i) = KindIn(low, i)
    OBVIOUS
  <2>1. i # 0 => i \in 1 .. r
    OBVIOUS
  <2> QED BY <1>0, <2>1, Zenon DEF KindIn
<1>2. KindIn(high, r + 1) = high[r + 1].kind /\ KindIn(high, r) = KindIn(low, r)
  <2>1. r + 1 # 0 /\ r \in 0 .. r
    OBVIOUS
  <2> QED BY <1>1, <2>1, Zenon DEF KindIn
<1>3. ASSUME Foreseen(T, place1, low, p1) PROVE Foreseen(T, place2, high, p2)
  <2>1. PICK e : Closes(T, low, e) /\ Ahead(T, place1, KindIn(low, r), p1, e[r])
    BY <1>0, <1>3, Zenon DEF Foreseen
  <2>2. e[r] \in 1 .. Len(T) /\ T[e[r]] = Closer(KindIn(low, r))
    BY <1>0, <2>1, ClosesAt
  <2>3. PICK m \in 1 .. Len(T) : /\ T[m] = Closer(high[r + 1].kind)
                                 /\ After(T, KindIn(low, r), m + 1, e[r])
                                 /\ Ahead(T, place2, high[r + 1].kind, p2, m)
    BY <2>1, <2>2, Zenon DEF Agrees
  <2> DEFINE f == [i \in 0 .. r + 1 |-> IF i = r + 1 THEN m ELSE e[i]]
  <2>4. /\ e \in [0 .. r -> 1 .. Len(T)] /\ e[0] = Len(T)
        /\ \A i \in 1 .. r : /\ T[e[i]] = Closer(low[i].kind)
                             /\ After(T, KindIn(low, i - 1), e[i] + 1, e[i - 1])
    BY <1>0, <2>1, Zenon DEF Closes
  <2>5. f \in [0 .. r + 1 -> 1 .. Len(T)] /\ f[r + 1] = m /\ \A i \in 0 .. r : f[i] = e[i]
    <3>1. \A i \in 0 .. r + 1 : i # r + 1 => i \in 0 .. r
      OBVIOUS
    <3>2. r + 1 \in 0 .. r + 1 /\ \A i \in 0 .. r : i # r + 1 /\ i \in 0 .. r + 1
      OBVIOUS
    <3>3. \A i \in 0 .. r + 1 : f[i] = IF i = r + 1 THEN m ELSE e[i]
      OBVIOUS
    <3>4. f \in [0 .. r + 1 -> 1 .. Len(T)]
      BY <2>4, <3>1
    <3> HIDE DEF f
    <3>5. f[r + 1] = m
      BY <3>2, <3>3, Zenon
    <3>6. \A i \in 0 .. r : f[i] = e[i]
      BY <3>2, <3>3, Zenon
    <3> QED BY <3>4, <3>5, <3>6, Zenon
  <2> HIDE DEF f
  <2>6. f[0] = Len(T)
    BY <2>4, <2>5
  <2>7. ASSUME NEW i \in 1 .. r + 1
        PROVE  /\ T[f[i]] = Closer(high[i].kind)
               /\ After(T, KindIn(high, i - 1), f[i] + 1, f[i - 1])
    <3>1. CASE i = r + 1
      <4>1. i - 1 = r /\ f[i] = m /\ f[r] = e[r]
        BY <2>5, <3>1
      <4> QED BY <1>2, <2>3, <3>1, <4>1, Zenon
    <3>2. CASE i # r + 1
      <4>1. i \in 1 .. r /\ i - 1 \in 0 .. r /\ i \in 0 .. r
        BY <3>2
      <4>2. f[i] = e[i] /\ f[i - 1] = e[i - 1] /\ KindIn(high, i - 1) = KindIn(low, i - 1)
            /\ high[i] = low[i]
        BY <1>0, <1>1, <2>5, <4>1
      <4> QED BY <2>4, <4>1, <4>2, Zenon
    <3> QED BY <3>1, <3>2
  <2>8. Closes(T, high, f)
    BY <1>0, <2>5, <2>6, <2>7, Zenon DEF Closes
  <2>9. Ahead(T, place2, KindIn(high, Len(high)), p2, f[Len(high)])
    <3>1. Ahead(T, place2, high[r + 1].kind, p2, f[r + 1])
      BY <2>3, <2>5, Zenon
    <3> QED BY <1>0, <1>2, <3>1, Zenon
  <2> QED BY <2>8, <2>9, Zenon DEF Foreseen
<1>4. ASSUME Foreseen(T, place2, high, p2) PROVE Foreseen(T, place1, low, p1)
  <2>1. PICK f : Closes(T, high, f) /\ Ahead(T, place2, high[r + 1].kind, p2, f[r + 1])
    <3>1. PICK f : Closes(T, high, f) /\ Ahead(T, place2, KindIn(high, Len(high)), p2, f[Len(high)])
      BY <1>0, <1>4, Zenon DEF Foreseen
    <3>2. Ahead(T, place2, high[r + 1].kind, p2, f[r + 1])
      BY <1>0, <1>2, <3>1, Zenon
    <3> QED BY <3>1, <3>2, Zenon
  <2>2. /\ f \in [0 .. r + 1 -> 1 .. Len(T)] /\ f[0] = Len(T)
        /\ \A i \in 1 .. r + 1 : /\ T[f[i]] = Closer(high[i].kind)
                                 /\ After(T, KindIn(high, i - 1), f[i] + 1, f[i - 1])
    BY <1>0, <2>1, Zenon DEF Closes
  <2> DEFINE e == [i \in 0 .. r |-> f[i]]
  <2>3. e \in [0 .. r -> 1 .. Len(T)] /\ \A i \in 0 .. r : e[i] = f[i]
    BY <2>2
  <2> HIDE DEF e
  <2>4. e[0] = Len(T)
    BY <2>2, <2>3
  <2>5. ASSUME NEW i \in 1 .. r
        PROVE  /\ T[e[i]] = Closer(low[i].kind)
               /\ After(T, KindIn(low, i - 1), e[i] + 1, e[i - 1])
    <3>1. i \in 1 .. r + 1 /\ i - 1 \in 0 .. r /\ i \in 0 .. r
      OBVIOUS
    <3>2. f[i] = e[i] /\ f[i - 1] = e[i - 1] /\ KindIn(high, i - 1) = KindIn(low, i - 1)
          /\ high[i] = low[i]
      BY <1>0, <1>1, <2>3, <3>1
    <3> QED BY <2>2, <3>1, <3>2, Zenon
  <2>6. Closes(T, low, e)
    BY <1>0, <2>3, <2>4, <2>5, Zenon DEF Closes
  <2>7. /\ T[f[r + 1]] = Closer(high[r + 1].kind) /\ After(T, KindIn(low, r), f[r + 1] + 1, e[r])
        /\ f[r + 1] \in 1 .. Len(T)
    <3>1. r + 1 \in 1 .. r + 1 /\ r \in 0 .. r /\ (r + 1) - 1 = r /\ r + 1 \in 0 .. r + 1
      OBVIOUS
    <3>2. f[r + 1] \in 1 .. Len(T)
      BY <2>2, <3>1
    <3>3. e[r] = f[r]
      BY <2>3, <3>1
    <3>4. /\ T[f[r + 1]] = Closer(high[r + 1].kind)
          /\ After(T, KindIn(high, r), f[r + 1] + 1, f[r])
      BY <2>2, <3>1, Zenon
    <3> QED BY <1>2, <3>2, <3>3, <3>4, Zenon
  <2>8. e[r] \in 1 .. Len(T) /\ T[e[r]] = Closer(KindIn(low, r))
    BY <1>0, <2>6, ClosesAt
  <2>9. Ahead(T, place1, KindIn(low, r), p1, e[r])
    BY <2>1, <2>7, <2>8, Zenon DEF Agrees
  <2> QED BY <1>0, <2>6, <2>9, Zenon DEF Foreseen
<1> QED BY <1>3, <1>4, Zenon

(* Ahead, place by place.                                                  *)
LEMMA AheadAt ==
    \A T, kind, p, q :
        /\ Ahead(T, "value", kind, p, q) <=> ValueAhead(T, kind, p, q)
        /\ Ahead(T, "firstElement", kind, p, q) <=> p = q \/ ElementsAt(T, p, q - 1)
        /\ Ahead(T, "firstKey", kind, p, q) <=> p = q \/ MembersAt(T, p, q - 1)
        /\ Ahead(T, "key", kind, p, q) <=> MembersAt(T, p, q - 1)
        /\ Ahead(T, "accepted", kind, p, q) <=> p = q + 1
        /\ ~ Ahead(T, "failed", kind, p, q)
BY DEF Ahead

LEMMA ColonAhead ==
    \A T, place, kind, p, q : place = "firstColon" \/ place = "colon" =>
        (Ahead(T, place, kind, p, q) <=> T[p] = ":" /\ ValueAhead(T, kind, p + 1, q))
BY DEF Ahead

LEMMA AfterAhead ==
    \A T, place, kind, p, q : place = "arrayNext" \/ place = "objectNext" \/ place = "end" =>
        (Ahead(T, place, kind, p, q) <=> After(T, kind, p, q))
BY DEF Ahead

LEMMA CloserOf ==
    /\ Closer("array") = "]" /\ Closer("object") = RightBrace /\ Closer("top") = "end"
    /\ RightBrace = "}" /\ LeftBrace = "{"
BY Zenon DEF Closer, RightBrace, LeftBrace

(* Which containers the places in the loop are about.                      *)
LEMMA Fits ==
    ASSUME Inv, expects # "failed", NEW r, r = Len(ref_stack)
    PROVE  /\ r \in Nat
           /\ expects \in {"firstElement", "arrayNext"} =>
                 r > 0 /\ ref_stack[r].kind = "array" /\ KindIn(ref_stack, r) = "array"
           /\ expects \in {"firstKey", "firstColon", "key", "colon", "objectNext"} =>
                 r > 0 /\ ref_stack[r].kind = "object" /\ KindIn(ref_stack, r) = "object"
           /\ expects = "end" => r = 0 /\ KindIn(ref_stack, r) = "top"
<1>1. Depths /\ Innermost
  BY DEF Inv, Parsing
<1>2. r \in Nat /\ Len(states) \in Nat
  BY DEF Inv, TypeOK
<1>3. Opened => r > 0
  BY <1>1, <1>2 DEF Depths
<1>4. ~ Opened => Len(states) = r
  BY <1>1 DEF Depths
<1>5. /\ expects \in {"firstElement", "arrayNext"} => r > 0 /\ ref_stack[r].kind = "array"
      /\ expects \in {"firstKey", "firstColon", "key", "colon", "objectNext"} =>
            r > 0 /\ ref_stack[r].kind = "object"
      /\ expects = "end" => r = 0
  BY <1>1, <1>2, <1>3, <1>4 DEF Depths, Innermost, Opened
<1>6. r > 0 => r # 0
  BY <1>2
<1> QED BY <1>2, <1>5, <1>6, Zenon DEF KindIn

LEMMA PushedFrame ==
    ASSUME Inv, NEW kind, Push(kind), NEW r, r = Len(ref_stack)
    PROVE  Grows(ref_stack, ref_stack', r) /\ ref_stack'[r + 1].kind = kind
<1> DEFINE Frame == [kind : Containers, id : 1 .. made]
           top == [kind |-> kind, id |-> made + 1]
<1>1. ref_stack \in Seq(Frame) /\ ref_stack' = Append(ref_stack, top) /\ top.kind = kind
  BY DEF Inv, TypeOK, Push
<1> HIDE DEF Frame, top
<1>2. /\ Len(ref_stack) \in Nat /\ Len(ref_stack') = Len(ref_stack) + 1
      /\ \A i \in 1 .. Len(ref_stack) : ref_stack'[i] = ref_stack[i]
      /\ ref_stack'[Len(ref_stack) + 1] = top
  BY <1>1
<1>3. r \in Nat /\ Grows(ref_stack, ref_stack', r)
  BY <1>2, Zenon DEF Grows
<1> QED BY <1>1, <1>2, <1>3, Zenon

LEMMA TextGrows ==
    ASSUME Inv, NEW token \in Tokens, GetToken(token), NEW T, Complete(T), Begins(text', T)
    PROVE  /\ Begins(text, T) /\ Len(text) + 1 \in 1 .. Len(T) /\ T[Len(text) + 1] = token
           /\ Len(text') = Len(text) + 1
<1>1. text \in Seq(Tokens) /\ Len(text) \in Nat /\ text' = Append(text, token)
  BY DEF Inv, TypeOK, GetToken
<1>2. /\ Len(text') = Len(text) + 1 /\ text'[Len(text) + 1] = token
      /\ \A i \in 1 .. Len(text) : text'[i] = text[i]
  BY <1>1
<1>3. Len(text') <= Len(T) /\ \A i \in 1 .. Len(text') : T[i] = text'[i]
  BY Zenon DEF Begins
<1>4. Len(T) \in Nat
  BY DEF Complete
<1>5. Len(text) <= Len(T) /\ Len(text) + 1 \in 1 .. Len(T) /\ T[Len(text) + 1] = token
  BY <1>1, <1>2, <1>3, <1>4
<1>6. \A i \in 1 .. Len(text) : T[i] = text[i]
  BY <1>1, <1>2, <1>3
<1> QED BY <1>2, <1>5, <1>6 DEF Begins

LEMMA ForetoldKept ==
    ASSUME Inv, Foretold, NEW token \in Tokens, GetToken(token),
           \A T : Complete(T) /\ Len(text) + 1 \in 1 .. Len(T) /\ T[Len(text) + 1] = token =>
               (Foreseen(T, expects, ref_stack, Len(text) + 1) <=>
                    Foreseen(T, expects', ref_stack', Len(text) + 1 + 1))
    PROVE  Foretold'
<1> SUFFICES ASSUME NEW T, Complete(T), Begins(text', T)
             PROVE  ValueAt(T, 1, Len(T) - 1) <=>
                        Foreseen(T, expects', ref_stack', Len(text') + 1)
  BY Zenon DEF Foretold
<1>1. /\ Begins(text, T) /\ Len(text) + 1 \in 1 .. Len(T) /\ T[Len(text) + 1] = token
      /\ Len(text') = Len(text) + 1
  BY TextGrows
<1>2. ValueAt(T, 1, Len(T) - 1) <=> Foreseen(T, expects, ref_stack, Len(text) + 1)
  BY <1>1, Zenon DEF Foretold
<1> QED BY <1>1, <1>2, Zenon

LEMMA BeginningAhead ==
    ASSUME Inv, AtValue, NEW T, Complete(T), NEW p \in 1 .. Len(T), T[p] \in Starts,
           NEW kind, kind = KindIn(ref_stack, Len(ref_stack)),
           NEW q \in 1 .. Len(T), T[q] = Closer(kind)
    PROVE  Ahead(T, expects, kind, p, q) <=> ValueAhead(T, kind, p, q)
<1>1. CASE expects = "value"
  BY <1>1, AheadAt, Zenon
<1>2. CASE expects = "firstElement"
  <2>1. kind = "array"
    BY <1>2, Fits
  <2>2. p # q
    BY <2>1, CloserOf, Zenon DEF Starts, Scalars
  <2>3. ElementsAt(T, p, q - 1) <=> ValueAhead(T, "array", p, q)
    BY ElementsAhead DEF Complete
  <2> QED BY <1>2, <2>1, <2>2, <2>3, AheadAt, Zenon
<1> QED BY <1>1, <1>2, Zenon DEF AtValue

LEMMA ScalarForetold == Inv /\ Foretold /\ Scalar => Foretold'
<1> SUFFICES ASSUME Inv, Foretold, Scalar PROVE Foretold'
  OBVIOUS
<1>1. PICK token \in Scalars : GetToken(token)
  BY DEF Scalar
<1>2. token \in Tokens
  BY Zenon DEF Tokens
<1>3. AtValue /\ ref_stack' = ref_stack /\ expects' \in {"arrayNext", "objectNext", "end"}
  BY Zenon DEF Scalar, AfterValue
<1>4. Len(ref_stack) \in Nat
  BY DEF Inv, TypeOK
<1>5. ASSUME NEW T, Complete(T), NEW p \in 1 .. Len(T), T[p] = token
      PROVE  Foreseen(T, expects, ref_stack, p) <=> Foreseen(T, expects', ref_stack', p + 1)
  <2> DEFINE kind == KindIn(ref_stack, Len(ref_stack))
  <2> HIDE DEF kind
  <2>1. ASSUME NEW q \in 1 .. Len(T), T[q] = Closer(kind)
        PROVE  Ahead(T, expects, kind, p, q) <=> Ahead(T, expects', kind, p + 1, q)
    <3>1. T[p] \in Starts
      BY <1>5, Zenon DEF Starts
    <3>2. Ahead(T, expects, kind, p, q) <=> ValueAhead(T, kind, p, q)
      BY <1>3, <1>5, <2>1, <3>1, BeginningAhead, Zenon DEF kind
    <3>3. ValueAhead(T, kind, p, q) <=> After(T, kind, p + 1, q)
      BY <1>5, ScalarAhead DEF Complete
    <3>4. Ahead(T, expects', kind, p + 1, q) <=> After(T, kind, p + 1, q)
      BY <1>3, AfterAhead, Zenon
    <3> QED BY <3>2, <3>3, <3>4, Zenon
  <2> QED BY <1>3, <1>4, <1>5, <2>1, StackKept, Zenon DEF kind
<1> QED BY <1>1, <1>2, <1>5, ForetoldKept, Zenon

LEMMA ArrayForetold == Inv /\ Foretold /\ BeginArray => Foretold'
<1> SUFFICES ASSUME Inv, Foretold, BeginArray PROVE Foretold'
  OBVIOUS
<1>1. GetToken("[") /\ AtValue /\ Push("array") /\ expects' = "firstElement"
  BY Zenon DEF BeginArray
<1>2. "[" \in Tokens /\ "[" \in Starts
  BY DEF Tokens, Starts
<1> DEFINE r == Len(ref_stack)
<1>3. r = Len(ref_stack) /\ Grows(ref_stack, ref_stack', r) /\ ref_stack'[r + 1].kind = "array"
  BY PushedFrame, <1>1
<1> HIDE DEF r
<1>4. ASSUME NEW T, Complete(T), NEW p \in 1 .. Len(T), T[p] = "["
      PROVE  Foreseen(T, expects, ref_stack, p) <=> Foreseen(T, expects', ref_stack', p + 1)
  <2> DEFINE kind == KindIn(ref_stack, r)
  <2>1. kind = KindIn(ref_stack, Len(ref_stack))
    BY <1>3, Zenon
  <2> HIDE DEF kind
  <2>2. ASSUME NEW q \in 1 .. Len(T), T[q] = Closer(kind)
        PROVE  Ahead(T, expects, kind, p, q) <=>
                 \E m \in 1 .. Len(T) :
                     /\ T[m] = Closer(ref_stack'[r + 1].kind)
                     /\ After(T, kind, m + 1, q)
                     /\ Ahead(T, "firstElement", ref_stack'[r + 1].kind, p + 1, m)
    <3>1. Ahead(T, expects, kind, p, q) <=> ValueAhead(T, kind, p, q)
      BY <1>1, <1>2, <1>4, <2>1, <2>2, BeginningAhead, Zenon
    <3>2. ValueAhead(T, kind, p, q) <=>
             \E m \in 1 .. Len(T) :
                /\ T[m] = "]" /\ After(T, kind, m + 1, q)
                /\ (p + 1 = m \/ ElementsAt(T, p + 1, m - 1))
      BY <1>4, ArrayAhead, Zenon DEF Complete
    <3>3. \A m : Ahead(T, "firstElement", "array", p + 1, m) <=> p + 1 = m \/ ElementsAt(T, p + 1, m - 1)
      BY AheadAt, Zenon
    <3>4. Closer(ref_stack'[r + 1].kind) = "]" /\ ref_stack'[r + 1].kind = "array"
      BY <1>3, CloserOf, Zenon
    <3> QED BY <3>1, <3>2, <3>3, <3>4, Zenon
  <2>3. Agrees(T, ref_stack, expects, p, ref_stack', "firstElement", p + 1, r)
    BY <2>2, Zenon DEF Agrees, kind
  <2>4. Foreseen(T, expects, ref_stack, p) <=> Foreseen(T, "firstElement", ref_stack', p + 1)
    BY <1>3, <1>4, <2>3, StackGrown, Zenon
  <2> QED BY <1>1, <2>4, Zenon
<1> QED BY <1>1, <1>2, <1>4, ForetoldKept, Zenon

LEMMA ObjectForetold == Inv /\ Foretold /\ BeginObject => Foretold'
<1> SUFFICES ASSUME Inv, Foretold, BeginObject PROVE Foretold'
  OBVIOUS
<1>1. GetToken(LeftBrace) /\ AtValue /\ Push("object") /\ expects' = "firstKey"
  BY Zenon DEF BeginObject, LeftBrace
<1>2. LeftBrace \in Tokens /\ LeftBrace \in Starts
  BY Zenon DEF Tokens, Starts, LeftBrace
<1> DEFINE r == Len(ref_stack)
<1>3. r = Len(ref_stack) /\ Grows(ref_stack, ref_stack', r) /\ ref_stack'[r + 1].kind = "object"
  BY PushedFrame, <1>1
<1> HIDE DEF r
<1>4. ASSUME NEW T, Complete(T), NEW p \in 1 .. Len(T), T[p] = LeftBrace
      PROVE  Foreseen(T, expects, ref_stack, p) <=> Foreseen(T, expects', ref_stack', p + 1)
  <2> DEFINE kind == KindIn(ref_stack, r)
  <2>1. kind = KindIn(ref_stack, Len(ref_stack))
    BY <1>3, Zenon
  <2> HIDE DEF kind
  <2>2. ASSUME NEW q \in 1 .. Len(T), T[q] = Closer(kind)
        PROVE  Ahead(T, expects, kind, p, q) <=>
                 \E m \in 1 .. Len(T) :
                     /\ T[m] = Closer(ref_stack'[r + 1].kind)
                     /\ After(T, kind, m + 1, q)
                     /\ Ahead(T, "firstKey", ref_stack'[r + 1].kind, p + 1, m)
    <3>1. Ahead(T, expects, kind, p, q) <=> ValueAhead(T, kind, p, q)
      BY <1>1, <1>2, <1>4, <2>1, <2>2, BeginningAhead, Zenon
    <3>2. ValueAhead(T, kind, p, q) <=>
             \E m \in 1 .. Len(T) :
                /\ T[m] = RightBrace /\ After(T, kind, m + 1, q)
                /\ (p + 1 = m \/ MembersAt(T, p + 1, m - 1))
      BY <1>4, ObjectAhead, Zenon DEF Complete
    <3>3. \A m : Ahead(T, "firstKey", "object", p + 1, m) <=> p + 1 = m \/ MembersAt(T, p + 1, m - 1)
      BY AheadAt, Zenon
    <3>4. Closer(ref_stack'[r + 1].kind) = RightBrace /\ ref_stack'[r + 1].kind = "object"
      BY <1>3, CloserOf, Zenon
    <3> QED BY <3>1, <3>2, <3>3, <3>4, Zenon
  <2>3. Agrees(T, ref_stack, expects, p, ref_stack', "firstKey", p + 1, r)
    BY <2>2, Zenon DEF Agrees, kind
  <2>4. Foreseen(T, expects, ref_stack, p) <=> Foreseen(T, "firstKey", ref_stack', p + 1)
    BY <1>3, <1>4, <2>3, StackGrown, Zenon
  <2> QED BY <1>1, <2>4, Zenon
<1> QED BY <1>1, <1>2, <1>4, ForetoldKept, Zenon

LEMMA KeyForetold == Inv /\ Foretold /\ Key => Foretold'
<1> SUFFICES ASSUME Inv, Foretold, Key PROVE Foretold'
  OBVIOUS
<1>1. /\ GetToken("string") /\ ref_stack' = ref_stack
      /\ \/ expects = "firstKey" /\ expects' = "firstColon"
         \/ expects = "key" /\ expects' = "colon"
  <2>1. "key" # "firstKey"
    OBVIOUS
  <2> QED BY <2>1, Zenon DEF Key
<1>2. "string" \in Tokens
  BY DEF Tokens, Scalars
<1>3. PICK kind : /\ Len(ref_stack) \in Nat /\ KindIn(ref_stack, Len(ref_stack)) = kind
                  /\ kind = "object"
  BY <1>1, Fits
<1>4. ASSUME NEW T, Complete(T), NEW p \in 1 .. Len(T), T[p] = "string"
      PROVE  Foreseen(T, expects, ref_stack, p) <=> Foreseen(T, expects', ref_stack', p + 1)
  <2>1. ASSUME NEW q \in 1 .. Len(T), T[q] = Closer(kind)
        PROVE  Ahead(T, expects, kind, p, q) <=> Ahead(T, expects', kind, p + 1, q)
    <3>1. p # q
      <4>1. "string" # "}"
        BY Zenon
      <4> QED BY <1>3, <1>4, <2>1, <4>1, CloserOf, Zenon
    <3>2. Ahead(T, expects, kind, p, q) <=> MembersAt(T, p, q - 1)
      <4>1. CASE expects = "firstKey"
        BY <3>1, <4>1, AheadAt, Zenon
      <4>2. CASE expects = "key"
        BY <4>2, AheadAt, Zenon
      <4> QED BY <1>1, <4>1, <4>2, Zenon
    <3>3. MembersAt(T, p, q - 1) <=>
            T[p] = "string" /\ T[p + 1] = ":" /\ ValueAhead(T, "object", p + 1 + 1, q)
      BY <1>4, MembersAhead DEF Complete
    <3>4. Ahead(T, expects', kind, p + 1, q) <=>
            T[p + 1] = ":" /\ ValueAhead(T, kind, p + 1 + 1, q)
      BY <1>1, ColonAhead, Zenon
    <3> QED BY <1>3, <1>4, <3>2, <3>3, <3>4, Zenon
  <2>2. \A q \in 1 .. Len(T) :
             T[q] = Closer(KindIn(ref_stack, Len(ref_stack))) =>
                 (Ahead(T, expects, KindIn(ref_stack, Len(ref_stack)), p, q) <=>
                      Ahead(T, expects', KindIn(ref_stack, Len(ref_stack)), p + 1, q))
    BY <1>3, <2>1, Zenon
  <2> QED BY <1>1, <1>3, <1>4, <2>2, StackKept, Zenon
<1> QED BY <1>1, <1>2, <1>4, ForetoldKept, Zenon

LEMMA ColonForetold == Inv /\ Foretold /\ Colon => Foretold'
<1> SUFFICES ASSUME Inv, Foretold, Colon PROVE Foretold'
  OBVIOUS
<1>1. /\ GetToken(":") /\ ref_stack' = ref_stack /\ expects' = "value"
      /\ expects \in {"firstColon", "colon"}
  BY Zenon DEF Colon
<1>2. ":" \in Tokens
  BY DEF Tokens
<1>3. Len(ref_stack) \in Nat
  BY DEF Inv, TypeOK
<1>4. ASSUME NEW T, Complete(T), NEW p \in 1 .. Len(T), T[p] = ":"
      PROVE  Foreseen(T, expects, ref_stack, p) <=> Foreseen(T, expects', ref_stack', p + 1)
  <2>1. ASSUME NEW kind, NEW q \in 1 .. Len(T)
        PROVE  Ahead(T, expects, kind, p, q) <=> Ahead(T, expects', kind, p + 1, q)
    <3>1. Ahead(T, expects, kind, p, q) <=> T[p] = ":" /\ ValueAhead(T, kind, p + 1, q)
      BY <1>1, ColonAhead, Zenon
    <3>2. Ahead(T, expects', kind, p + 1, q) <=> ValueAhead(T, kind, p + 1, q)
      BY <1>1, AheadAt, Zenon
    <3> QED BY <1>4, <3>1, <3>2, Zenon
  <2> QED BY <1>1, <1>3, <1>4, <2>1, StackKept, Zenon
<1> QED BY <1>1, <1>2, <1>4, ForetoldKept, Zenon

LEMMA CommaForetold == Inv /\ Foretold /\ Comma => Foretold'
<1> SUFFICES ASSUME Inv, Foretold, Comma PROVE Foretold'
  OBVIOUS
<1>1. /\ GetToken(",") /\ ref_stack' = ref_stack
      /\ \/ expects = "arrayNext" /\ expects' = "value"
         \/ expects = "objectNext" /\ expects' = "key"
  <2>1. "objectNext" # "arrayNext"
    OBVIOUS
  <2> QED BY <2>1, Zenon DEF Comma
<1>2. "," \in Tokens
  BY DEF Tokens
<1>3. PICK kind : /\ Len(ref_stack) \in Nat /\ KindIn(ref_stack, Len(ref_stack)) = kind
                  /\ \/ expects = "arrayNext" /\ expects' = "value" /\ kind = "array"
                     \/ expects = "objectNext" /\ expects' = "key" /\ kind = "object"
  BY <1>1, Fits
<1>4. ASSUME NEW T, Complete(T), NEW p \in 1 .. Len(T), T[p] = ","
      PROVE  Foreseen(T, expects, ref_stack, p) <=> Foreseen(T, expects', ref_stack', p + 1)
  <2>1. ASSUME NEW q \in 1 .. Len(T), T[q] = Closer(kind)
        PROVE  Ahead(T, expects, kind, p, q) <=> Ahead(T, expects', kind, p + 1, q)
    <3>1. p # q
      <4>1. "," # "}" /\ "," # "]"
        BY Zenon
      <4> QED BY <1>3, <1>4, <2>1, <4>1, CloserOf, Zenon
    <3>2. Ahead(T, expects, kind, p, q) <=> After(T, kind, p, q)
      BY <1>3, AfterAhead, Zenon
    <3>3. CASE expects = "arrayNext" /\ expects' = "value" /\ kind = "array"
      <4>1. After(T, kind, p, q) <=> ElementsAt(T, p + 1, q - 1)
        <5>1. "array" # "object"
          OBVIOUS
        <5> QED BY <1>4, <3>1, <3>3, <5>1, Zenon DEF After
      <4>2. ElementsAt(T, p + 1, q - 1) <=> ValueAhead(T, "array", p + 1, q)
        <5>0. T \in Seq(Tokens)
          BY <1>4, Zenon DEF Complete
        <5>1. T \in Seq(Tokens) /\ Len(T) \in Nat
          BY <5>0
        <5>2. p + 1 \in 1 .. Len(T) + 1
          BY <5>1
        <5> QED BY <5>1, <5>2, ElementsAhead
      <4>3. Ahead(T, "value", "array", p + 1, q) <=> ValueAhead(T, "array", p + 1, q)
        BY AheadAt, Zenon
      <4> QED BY <3>2, <3>3, <4>1, <4>2, <4>3, Zenon
    <3>4. CASE expects = "objectNext" /\ expects' = "key" /\ kind = "object"
      <4>1. After(T, kind, p, q) <=> MembersAt(T, p + 1, q - 1)
        <5>1. "array" # "object"
          OBVIOUS
        <5> QED BY <1>4, <3>1, <3>4, <5>1, Zenon DEF After
      <4>2. Ahead(T, "key", "object", p + 1, q) <=> MembersAt(T, p + 1, q - 1)
        BY AheadAt, Zenon
      <4> QED BY <3>2, <3>4, <4>1, <4>2, Zenon
    <3> QED BY <1>3, <3>3, <3>4, Zenon
  <2> QED BY <1>1, <1>3, <1>4, <2>1, StackKept, Zenon
<1> QED BY <1>1, <1>2, <1>4, ForetoldKept, Zenon

LEMMA EndAhead ==
    ASSUME NEW T, Complete(T), NEW p \in 1 .. Len(T), NEW m \in 1 .. Len(T), NEW kind,
           NEW place,
           \/ place = "firstElement" /\ kind = "array"
           \/ place = "firstKey" /\ kind = "object"
           \/ place = "arrayNext" /\ kind = "array"
           \/ place = "objectNext" /\ kind = "object",
           T[p] = Closer(kind)
    PROVE  Ahead(T, place, kind, p, m) <=> p = m
<1>1. T \in Seq(Tokens)
  BY Zenon DEF Complete
<1>2. Within(T, p, m - 1)
  BY <1>1 DEF Within
<1>3. CASE place = "firstElement" /\ kind = "array"
  <2>1. T[p] \notin Starts
    <3>1. T[p] = "]"
      BY <1>3, CloserOf, Zenon
    <3> QED BY <3>1, Zenon DEF Starts, Scalars
  <2>2. ~ ElementsAt(T, p, m - 1)
    BY <1>2, <2>1, ElementsStarts, Zenon
  <2> QED BY <1>3, <2>2, AheadAt, Zenon
<1>4. CASE place = "firstKey" /\ kind = "object"
  <2>1. T[p] # "string"
    <3>1. T[p] = "}"
      BY <1>4, CloserOf, Zenon
    <3> QED BY <3>1, Zenon
  <2>2. ~ MembersAt(T, p, m - 1)
    BY <1>2, <2>1, MembersStarts, Zenon
  <2> QED BY <1>4, <2>2, AheadAt, Zenon
<1>5. CASE place \in {"arrayNext", "objectNext"}
  <2>1. T[p] # ","
    <3>1. T[p] = "]" \/ T[p] = "}"
      BY CloserOf, Zenon
    <3>2. "," # "]" /\ "," # "}"
      BY Zenon
    <3> QED BY <3>1, <3>2, Zenon
  <2>2. Ahead(T, place, kind, p, m) <=> After(T, kind, p, m)
    BY <1>5, AfterAhead, Zenon
  <2> QED BY <2>1, <2>2, Zenon DEF After
<1> QED BY <1>3, <1>4, <1>5, Zenon

LEMMA PoppedFrame ==
    ASSUME Inv, ref_stack' = Front(ref_stack), Len(ref_stack) > 0, NEW r, r = Len(ref_stack) - 1
    PROVE  Grows(ref_stack', ref_stack, r)
<1>1. /\ Len(ref_stack) \in Nat /\ Len(ref_stack') = Len(ref_stack) - 1
      /\ \A i \in 1 .. Len(ref_stack) - 1 : ref_stack'[i] = ref_stack[i]
  BY FrontOfStack DEF Inv, TypeOK
<1>2. r \in Nat /\ Len(ref_stack') = r /\ Len(ref_stack) = r + 1
  BY <1>1
<1>3. \A i \in 1 .. r : ref_stack[i] = ref_stack'[i]
  BY <1>1
<1> QED BY <1>2, <1>3, Zenon DEF Grows

(* A container ends, whether anything was in it or not.                    *)
LEMMA EndForetold ==
    ASSUME Inv, Foretold, NEW kind \in Containers, GetToken(Closer(kind)),
           \/ expects = "firstElement" /\ kind = "array"
           \/ expects = "firstKey" /\ kind = "object"
           \/ expects = "arrayNext" /\ kind = "array"
           \/ expects = "objectNext" /\ kind = "object",
           ref_stack' = Front(ref_stack),
           expects' \in {"arrayNext", "objectNext", "end"}
    PROVE  Foretold'
<1>1. Closer(kind) \in Tokens
  <2>1. "]" \in Tokens /\ "}" \in Tokens
    BY Zenon DEF Tokens
  <2> QED BY <2>1, CloserOf, Zenon DEF Containers
<1>2. expects # "failed"
  OBVIOUS
<1>3. /\ Len(ref_stack) \in Nat /\ Len(ref_stack) > 0
      /\ ref_stack[Len(ref_stack)].kind = kind
  BY <1>2, Fits
<1>4. PICK r \in Nat : r = Len(ref_stack) - 1 /\ r + 1 = Len(ref_stack)
  BY <1>3
<1>5. Grows(ref_stack', ref_stack, r) /\ ref_stack[r + 1].kind = kind
  BY <1>3, <1>4, PoppedFrame
<1>6. ASSUME NEW T, Complete(T), NEW p \in 1 .. Len(T), T[p] = Closer(kind)
      PROVE  Foreseen(T, expects, ref_stack, p) <=> Foreseen(T, expects', ref_stack', p + 1)
  <2> DEFINE outer == KindIn(ref_stack', r)
  <2> HIDE DEF outer
  <2>1. ASSUME NEW q \in 1 .. Len(T)
        PROVE  Ahead(T, expects', outer, p + 1, q) <=>
                 \E m \in 1 .. Len(T) :
                     /\ T[m] = Closer(ref_stack[r + 1].kind)
                     /\ After(T, outer, m + 1, q)
                     /\ Ahead(T, expects, ref_stack[r + 1].kind, p, m)
    <3>1. Ahead(T, expects', outer, p + 1, q) <=> After(T, outer, p + 1, q)
      BY AfterAhead, Zenon
    <3>2. \A m \in 1 .. Len(T) : Ahead(T, expects, kind, p, m) <=> p = m
      BY <1>6, EndAhead, Zenon
    <3> QED BY <1>5, <1>6, <3>1, <3>2, Zenon
  <2>2. Agrees(T, ref_stack', expects', p + 1, ref_stack, expects, p, r)
    BY <2>1, Zenon DEF Agrees, outer
  <2> QED BY <1>5, <1>6, <2>2, StackGrown, Zenon
<1> QED BY <1>1, <1>6, ForetoldKept, Zenon

LEMMA EndsForetold == Inv /\ Foretold /\ (EndEmpty \/ EndFilled) => Foretold'
<1> SUFFICES ASSUME Inv, Foretold, EndEmpty \/ EndFilled PROVE Foretold'
  OBVIOUS
<1>1. expects' \in {"arrayNext", "objectNext", "end"} /\ ref_stack' = Front(ref_stack)
  BY Zenon DEF EndEmpty, EndFilled, AfterValue
<1>2. "array" \in Containers /\ "object" \in Containers
  BY DEF Containers
<1>3. CASE GetToken("]") /\ expects \in {"firstElement", "arrayNext"}
  <2>1. GetToken(Closer("array"))
    BY <1>3, CloserOf, Zenon
  <2> QED BY <1>1, <1>2, <1>3, <2>1, EndForetold
<1>4. CASE GetToken("}") /\ expects \in {"firstKey", "objectNext"}
  <2>1. GetToken(Closer("object")) /\ expects \in {"firstKey", "objectNext"}
    BY <1>4, CloserOf, Zenon
  <2> QED BY <1>1, <1>2, <2>1, EndForetold, Zenon
<1> QED BY <1>3, <1>4, Zenon DEF EndEmpty, EndFilled

LEMMA AcceptForetold == Inv /\ Foretold /\ Accept => Foretold'
<1> SUFFICES ASSUME Inv, Foretold, Accept PROVE Foretold'
  OBVIOUS
<1>1. /\ GetToken("end") /\ ref_stack' = ref_stack /\ expects = "end" /\ expects' = "accepted"
  BY Zenon DEF Accept
<1>2. "end" \in Tokens
  BY Zenon DEF Tokens
<1>3. Len(ref_stack) \in Nat /\ KindIn(ref_stack, Len(ref_stack)) = "top"
  BY <1>1, Fits
<1>4. ASSUME NEW T, Complete(T), NEW p \in 1 .. Len(T), T[p] = "end"
      PROVE  Foreseen(T, expects, ref_stack, p) <=> Foreseen(T, expects', ref_stack', p + 1)
  <2>1. ASSUME NEW kind, NEW q \in 1 .. Len(T)
        PROVE  Ahead(T, expects, kind, p, q) <=> Ahead(T, expects', kind, p + 1, q)
    <3>1. Ahead(T, expects, kind, p, q) <=> p = q
      <4>1. "end" # ","
        BY Zenon
      <4>2. Ahead(T, expects, kind, p, q) <=> After(T, kind, p, q)
        BY <1>1, AfterAhead, Zenon
      <4> QED BY <1>4, <4>1, <4>2, Zenon DEF After
    <3>2. Ahead(T, expects', kind, p + 1, q) <=> p + 1 = q + 1
      BY <1>1, AheadAt, Zenon
    <3>3. p + 1 = q + 1 <=> p = q
      OBVIOUS
    <3> QED BY <3>1, <3>2, <3>3, Zenon
  <2> QED BY <1>1, <1>3, <1>4, <2>1, StackKept, Zenon
<1> QED BY <1>1, <1>2, <1>4, ForetoldKept, Zenon

LEMMA WantedFields ==
    /\ Wanted["value"] = Starts
    /\ Wanted["firstElement"] = Starts \cup {"]"}
    /\ Wanted["firstKey"] = {"string", RightBrace} /\ Wanted["key"] = {"string"}
    /\ Wanted["firstColon"] = {":"} /\ Wanted["colon"] = {":"}
    /\ Wanted["arrayNext"] = {",", "]"} /\ Wanted["objectNext"] = {",", RightBrace}
    /\ Wanted["end"] = {"end"}
    /\ \A place \in DOMAIN Wanted :
          \/ place \in {"value", "firstElement", "firstKey", "key", "firstColon", "colon"}
          \/ place \in {"arrayNext", "objectNext", "end"}
<1>1. \A a, b, c, d, e, f, g, h, i :
        LET w == [value |-> a, firstElement |-> b, firstKey |-> c, key |-> d,
                  firstColon |-> e, colon |-> f, arrayNext |-> g, objectNext |-> h, end |-> i]
        IN  /\ w["value"] = a /\ w["firstElement"] = b /\ w["firstKey"] = c /\ w["key"] = d
            /\ w["firstColon"] = e /\ w["colon"] = f
            /\ w["arrayNext"] = g /\ w["objectNext"] = h /\ w["end"] = i
            /\ \A place \in DOMAIN w :
                  \/ place \in {"value", "firstElement", "firstKey", "key", "firstColon", "colon"}
                  \/ place \in {"arrayNext", "objectNext", "end"}
  OBVIOUS
<1>2. Scalars \cup {"{", "["} = Starts /\ Scalars \cup {"{", "[", "]"} = Starts \cup {"]"}
  BY Zenon DEF Starts
<1>3. RightBrace = "}"
  BY DEF RightBrace
<1> DEFINE a == Scalars \cup {"{", "["}
           b == Scalars \cup {"{", "[", "]"}
           c == {"string", "}"}
           d == {"string"}
           f == {":"}
           g == {",", "]"}
           h == {",", "}"}
           i == {"end"}
<1>4. Wanted = [value |-> a, firstElement |-> b, firstKey |-> c, key |-> d,
                firstColon |-> f, colon |-> f, arrayNext |-> g, objectNext |-> h, end |-> i]
  BY Zenon DEF Wanted
<1>5. a = Starts /\ b = Starts \cup {"]"} /\ c = {"string", RightBrace} /\ h = {",", RightBrace}
  BY <1>2, <1>3, Zenon
<1>6. d = {"string"} /\ f = {":"} /\ g = {",", "]"} /\ i = {"end"}
  OBVIOUS
<1> HIDE DEF a, b, c, d, f, g, h, i
<1>7. /\ Wanted["value"] = a /\ Wanted["firstElement"] = b /\ Wanted["firstKey"] = c
      /\ Wanted["key"] = d /\ Wanted["firstColon"] = f /\ Wanted["colon"] = f
      /\ Wanted["arrayNext"] = g /\ Wanted["objectNext"] = h /\ Wanted["end"] = i
      /\ \A place \in DOMAIN Wanted :
            \/ place \in {"value", "firstElement", "firstKey", "key", "firstColon", "colon"}
            \/ place \in {"arrayNext", "objectNext", "end"}
  BY <1>1, <1>4
<1> QED BY <1>5, <1>6, <1>7, Zenon

(* What is ahead begins with what the place wants.                         *)
LEMMA AheadIsWanted ==
    ASSUME Inv, expects # "failed", expects \in DOMAIN Wanted,
           NEW T, Complete(T), NEW p \in 1 .. Len(T), NEW q \in 1 .. Len(T),
           NEW kind, kind = KindIn(ref_stack, Len(ref_stack)), T[q] = Closer(kind),
           Ahead(T, expects, kind, p, q)
    PROVE  T[p] \in Wanted[expects]
<1>1. T \in Seq(Tokens)
  BY Zenon DEF Complete
<1>2. \A j \in Nat : j <= Len(T) => Within(T, p, j)
  BY <1>1 DEF Within
<1>3. q - 1 \in Nat /\ q - 1 <= Len(T) /\ q \in Nat /\ q <= Len(T)
  BY <1>1
<1>4. CASE expects = "value"
  <2>0. ValueAhead(T, kind, p, q)
    BY <1>4, AheadAt, Zenon
  <2>1. PICK m \in p .. q - 1 : ValueAt(T, p, m)
    BY <2>0, Zenon DEF ValueAhead
  <2>2. m \in Nat /\ m <= Len(T)
    BY <1>1, <2>1
  <2> QED BY <1>2, <1>4, <2>1, <2>2, ValueStarts, WantedFields, Zenon
<1>5. CASE expects = "firstElement"
  <2>1. kind = "array"
    BY <1>5, Fits
  <2>2. CASE p = q
    BY <1>5, <2>1, <2>2, CloserOf, WantedFields, Zenon
  <2>3. CASE ElementsAt(T, p, q - 1)
    BY <1>2, <1>3, <1>5, <2>3, ElementsStarts, WantedFields, Zenon
  <2> QED BY <1>5, <2>2, <2>3, AheadAt, Zenon
<1>6. CASE expects \in {"firstKey", "key"}
  <2>1. kind = "object"
    BY <1>6, Fits
  <2>2. CASE p = q /\ expects = "firstKey"
    BY <2>1, <2>2, CloserOf, WantedFields, Zenon
  <2>3. CASE MembersAt(T, p, q - 1)
    <3>1. Within(T, p, q - 1)
      BY <1>2, <1>3, Zenon
    <3>2. T[p] = "string"
      BY <2>3, <3>1, MembersStarts, Zenon
    <3>3. CASE expects = "firstKey"
      BY <3>2, <3>3, WantedFields, Zenon
    <3>4. CASE expects = "key"
      BY <3>2, <3>4, WantedFields, Zenon
    <3> QED BY <1>6, <3>3, <3>4, Zenon
  <2>4. CASE expects = "firstKey"
    BY <2>2, <2>3, <2>4, AheadAt, Zenon
  <2>5. CASE expects = "key"
    BY <2>3, <2>5, AheadAt, Zenon
  <2> QED BY <1>6, <2>4, <2>5, Zenon
<1>7. CASE expects \in {"firstColon", "colon"}
  <2>1. expects = "firstColon" \/ expects = "colon"
    BY <1>7, Zenon
  <2>2. T[p] = ":"
    BY <2>1, ColonAhead, Zenon
  <2>3. CASE expects = "firstColon"
    BY <2>2, <2>3, WantedFields, Zenon
  <2>4. CASE expects = "colon"
    BY <2>2, <2>4, WantedFields, Zenon
  <2> QED BY <2>1, <2>3, <2>4, Zenon
<1>8. CASE expects \in {"arrayNext", "objectNext", "end"}
  <2>1. \/ expects = "arrayNext" /\ kind = "array"
        \/ expects = "objectNext" /\ kind = "object"
        \/ expects = "end" /\ kind = "top"
    BY <1>8, Fits
  <2>2. After(T, kind, p, q)
    BY <1>8, AfterAhead, Zenon
  <2>3. p = q => T[p] \in Wanted[expects]
    <3> SUFFICES ASSUME p = q PROVE T[p] \in Wanted[expects]
      OBVIOUS
    <3>1. T[p] = Closer(kind)
      BY Zenon
    <3>2. CASE expects = "arrayNext" /\ kind = "array"
      BY <3>1, <3>2, CloserOf, WantedFields, Zenon
    <3>3. CASE expects = "objectNext" /\ kind = "object"
      BY <3>1, <3>3, CloserOf, WantedFields, Zenon
    <3>4. CASE expects = "end" /\ kind = "top"
      BY <3>1, <3>4, CloserOf, WantedFields, Zenon
    <3> QED BY <2>1, <3>2, <3>3, <3>4, Zenon
  <2>4. p # q => T[p] = "," /\ kind \in {"array", "object"}
    BY <2>2, Zenon DEF After
  <2>5. "top" # "array" /\ "top" # "object"
    OBVIOUS
  <2> QED BY <2>1, <2>3, <2>4, <2>5, WantedFields, Zenon
<1> QED BY <1>4, <1>5, <1>6, <1>7, <1>8, WantedFields, Zenon

LEMMA FailForetold == Inv /\ Foretold /\ Fail => Foretold'
<1> SUFFICES ASSUME Inv, Foretold, Fail PROVE Foretold'
  OBVIOUS
<1>1. PICK token \in Tokens : GetToken(token) /\ token \notin Wanted[expects]
  BY Zenon DEF Fail
<1>2. expects \in DOMAIN Wanted /\ ref_stack' = ref_stack /\ expects' = "failed"
  BY Zenon DEF Fail
<1>3. Len(ref_stack) \in Nat /\ expects # "failed"
  <2>1. "failed" \notin DOMAIN Wanted
    <3>1. /\ "failed" \notin {"value", "firstElement", "firstKey", "key", "firstColon", "colon"}
          /\ "failed" \notin {"arrayNext", "objectNext", "end"}
      OBVIOUS
    <3> QED BY <3>1, WantedFields, Zenon
  <2> QED BY <1>2, <2>1 DEF Inv, TypeOK
<1>4. ASSUME NEW T, Complete(T), NEW p \in 1 .. Len(T), T[p] = token
      PROVE  Foreseen(T, expects, ref_stack, p) <=> Foreseen(T, expects', ref_stack', p + 1)
  <2> DEFINE kind == KindIn(ref_stack, Len(ref_stack))
  <2> HIDE DEF kind
  <2>1. ASSUME NEW q \in 1 .. Len(T), T[q] = Closer(kind)
        PROVE  Ahead(T, expects, kind, p, q) <=> Ahead(T, expects', kind, p + 1, q)
    <3>1. ~ Ahead(T, expects, kind, p, q)
      BY <1>1, <1>2, <1>3, <1>4, <2>1, AheadIsWanted, Zenon DEF kind
    <3>2. ~ Ahead(T, expects', kind, p + 1, q)
      BY <1>2, AheadAt, Zenon
    <3> QED BY <3>1, <3>2, Zenon
  <2> QED BY <1>2, <1>3, <1>4, <2>1, StackKept, Zenon DEF kind
<1> QED BY <1>1, <1>4, ForetoldKept, Zenon


(* With no container open, the text itself has to close.                   *)
LEMMA AtTop ==
    ASSUME NEW T, Complete(T), NEW place, NEW p
    PROVE  Foreseen(T, place, <<>>, p) <=> Ahead(T, place, "top", p, Len(T))
<1> DEFINE none == <<>>
           f == [i \in 0 .. 0 |-> Len(T)]
<1>1. Len(none) = 0 /\ Len(T) \in 1 .. Len(T)
  BY DEF Complete
<1>2. f \in [0 .. 0 -> 1 .. Len(T)] /\ f[0] = Len(T)
  BY <1>1
<1>3. \A i : i \notin 1 .. 0
  OBVIOUS
<1> HIDE DEF none, f
<1>4. Closes(T, none, f)
  BY <1>1, <1>2, <1>3, Zenon DEF Closes
<1>5. KindIn(none, Len(none)) = "top"
  BY <1>1, Zenon DEF KindIn
<1>6. \A e : Closes(T, none, e) => e[0] = Len(T)
  BY Zenon DEF Closes
<1>7. Foreseen(T, place, none, p) <=>
        \E e : Closes(T, none, e) /\ Ahead(T, place, "top", p, e[0])
  BY <1>1, <1>5, Zenon DEF Foreseen
<1>8. Foreseen(T, place, none, p) <=> Ahead(T, place, "top", p, Len(T))
  BY <1>2, <1>4, <1>6, <1>7, Zenon
<1> QED BY <1>8 DEF none

LEMMA InitForetold == Init => Foretold /\ Ended
<1> SUFFICES ASSUME Init PROVE Foretold /\ Ended
  OBVIOUS
<1>1. expects = "value" /\ ref_stack = <<>> /\ Len(text) + 1 = 1
  BY DEF Init
<1>2. ASSUME NEW T, Complete(T)
      PROVE  ValueAt(T, 1, Len(T) - 1) <=> Ahead(T, "value", "top", 1, Len(T))
  <2> DEFINE n == Len(T)
  <2>1. n \in Nat /\ n > 0
    BY <1>2 DEF Complete
  <2> HIDE DEF n
  <2>2. \A m : After(T, "top", m, n) <=> m = n
    <3>1. "top" # "array" /\ "top" # "object"
      OBVIOUS
    <3> QED BY <3>1, Zenon DEF After
  <2>3. Ahead(T, "value", "top", 1, n) <=> \E m \in 1 .. n - 1 : ValueAt(T, 1, m) /\ m + 1 = n
    <3>1. Ahead(T, "value", "top", 1, n) <=> ValueAhead(T, "top", 1, n)
      BY AheadAt, Zenon
    <3>2. ValueAhead(T, "top", 1, n) <=>
            \E m \in 1 .. n - 1 : ValueAt(T, 1, m) /\ After(T, "top", m + 1, n)
      BY Zenon DEF ValueAhead
    <3>3. \A m \in 1 .. n - 1 : After(T, "top", m + 1, n) <=> m + 1 = n
      BY <2>2, Zenon
    <3> QED BY <3>1, <3>2, <3>3, Zenon
  <2>4. \A m \in 1 .. n - 1 : m + 1 = n <=> m = n - 1
    BY <2>1
  <2>5. ValueAt(T, 1, n - 1) => n - 1 \in 1 .. n - 1
    <3>1. ValueAt(T, 1, n - 1) => 1 <= n - 1
      BY Zenon DEF ValueAt
    <3> QED BY <2>1, <3>1
  <2>6. ValueAt(T, 1, n - 1) <=> Ahead(T, "value", "top", 1, n)
    BY <2>3, <2>4, <2>5, Zenon
  <2> QED BY <2>6 DEF n
<1>3. Foretold
  BY <1>1, <1>2, AtTop, Zenon DEF Foretold
<1>4. Ended
  BY <1>1 DEF Ended
<1> QED BY <1>3, <1>4

LEMMA AcceptEnded == Inv /\ Accept => Ended'
<1> SUFFICES ASSUME Inv, Accept PROVE Ended'
  OBVIOUS
<1>1. GetToken("end") /\ ref_stack' = ref_stack /\ expects = "end"
  BY Zenon DEF Accept
<1>2. Len(ref_stack) = 0
  BY <1>1, Fits
<1>3. ref_stack = <<>>
  <2> DEFINE Frame == [kind : Containers, id : 1 .. made]
  <2>1. ref_stack \in Seq(Frame)
    BY DEF Inv, TypeOK
  <2> HIDE DEF Frame
  <2> QED BY <1>2, <2>1
<1>4. text \in Seq(Tokens) /\ text' = Append(text, "end")
  BY <1>1 DEF Inv, TypeOK, GetToken
<1>5. Len(text') > 0 /\ text'[Len(text')] = "end"
  BY <1>4
<1> QED BY <1>1, <1>3, <1>5 DEF Ended

(* The parser has thrown at a number that no double can hold.              *)
Overflowed == expects = "failed" /\ text[Len(text)] = "overflow"

LEMMA OverflowForetold == Inv /\ NumberOverflow => Overflowed'
<1> SUFFICES ASSUME Inv, NumberOverflow PROVE Overflowed'
  OBVIOUS
<1>1. text \in Seq(Tokens) /\ text' = Append(text, "overflow") /\ expects' = "failed"
  BY DEF Inv, TypeOK, NumberOverflow, GetToken
<1>2. text'[Len(text')] = "overflow"
  BY <1>1
<1> QED BY <1>1, <1>2 DEF Overflowed

LEMMA NextForetold ==
    ASSUME Inv, Overflowed \/ Foretold, Ended, [Next]_vars
    PROVE  (Overflowed \/ Foretold)' /\ Ended'
<1>1. CASE UNCHANGED vars
  <2>1. text' = text /\ expects' = expects /\ ref_stack' = ref_stack
    BY <1>1 DEF vars
  <2> QED BY <2>1, Zenon DEF Overflowed, Foretold, Ended
<1>2. CASE NumberOverflow
  <2>1. expects' = "failed" /\ "failed" # "accepted"
    BY <1>2 DEF NumberOverflow
  <2> QED BY <1>2, <2>1, OverflowForetold DEF Ended
<1>3. ASSUME Next, ~ NumberOverflow
      PROVE  Foretold
  <2>1. "failed" \notin DOMAIN Wanted
    <3>1. /\ "failed" \notin {"value", "firstElement", "firstKey", "key", "firstColon", "colon"}
          /\ "failed" \notin {"arrayNext", "objectNext", "end"}
      OBVIOUS
    <3> QED BY <3>1, WantedFields, Zenon
  <2>2. CASE Fail
    <3>1. expects # "failed"
      BY <2>1, <2>2, Zenon DEF Fail
    <3> QED BY <3>1 DEF Overflowed
  <2>3. CASE BeginObject \/ BeginArray \/ Scalar \/ Key \/ Colon \/ Comma
             \/ EndEmpty \/ EndFilled \/ Accept
    <3>1. expects # "failed"
      BY <2>3
         DEF BeginObject, BeginArray, Scalar, AtValue, Key, Colon, Comma, EndEmpty, EndFilled,
             Accept
    <3> QED BY <3>1 DEF Overflowed
  <2> QED BY <1>3, <2>2, <2>3 DEF Next
<1>4. CASE Accept
  <2>1. ~ NumberOverflow
    BY <1>4 DEF Accept, NumberOverflow
  <2>2. Foretold
    BY <1>3, <1>4, <2>1 DEF Next
  <2> QED BY <1>4, <2>2, AcceptForetold, AcceptEnded, Zenon
<1>5. CASE BeginObject \/ BeginArray \/ Scalar \/ Key \/ Colon \/ Comma
           \/ EndEmpty \/ EndFilled \/ Fail
  <2>1. \A open : AfterValue(open) # "accepted"
    BY DEF AfterValue
  <2>2. expects' # "accepted"
    BY <1>5, <2>1
       DEF BeginObject, BeginArray, Scalar, Key, Colon, Comma, EndEmpty, EndFilled, Fail
  <2>3. CASE NumberOverflow
    BY <1>2, <2>3
  <2>4. CASE ~ NumberOverflow
    <3>1. Foretold
      BY <1>3, <1>5, <2>4 DEF Next
    <3>2. Foretold'
      BY <1>5, <3>1, ObjectForetold, ArrayForetold, ScalarForetold, KeyForetold, ColonForetold,
         CommaForetold, EndsForetold, FailForetold, Zenon
    <3> QED BY <2>2, <3>2 DEF Ended
  <2> QED BY <2>3, <2>4
<1> QED BY <1>1, <1>2, <1>4, <1>5 DEF Next

(* The values of the grammar, as the texts that they are.                  *)
LEMMA WholeValue ==
    ASSUME NEW T, Complete(T)
    PROVE  ValueAt(T, 1, Len(T) - 1) <=>
               Len(T) > 1 /\ Front(T) \in Grammar[Len(T) - 1].value
<1> DEFINE n == Len(T) - 1
<1>1. Len(T) \in Nat /\ n - 1 + 1 = n /\ (1 <= n <=> Len(T) > 1)
  BY DEF Complete
<1>2. Front(T) = Part(T, 1, n)
  BY DEF Front, Part
<1> HIDE DEF n
<1> QED BY <1>1, <1>2, Zenon DEF ValueAt, n

LEMMA AcceptsDocuments ==
    ASSUME Inv, Overflowed \/ Foretold, Ended
    PROVE  AcceptsOnlyDocuments
<1> SUFFICES ASSUME Inv, Foretold, Ended, expects = "accepted"
             PROVE  Front(text) \in Documents
  BY DEF AcceptsOnlyDocuments, Overflowed
<1>1. text \in Seq(Tokens) /\ Len(text) \in Nat /\ Len(text) <= MaxTokens
  BY DEF Inv, TypeOK
<1>2. ref_stack = <<>> /\ Len(text) > 0 /\ text[Len(text)] = "end"
  BY DEF Ended
<1>3. Complete(text) /\ Begins(text, text)
  BY <1>1, <1>2 DEF Complete, Begins
<1>4. Foreseen(text, "accepted", <<>>, Len(text) + 1)
  BY <1>3, AtTop, AheadAt, Zenon
<1>5. ValueAt(text, 1, Len(text) - 1)
  BY <1>2, <1>3, <1>4, Zenon DEF Foretold
<1>6. Len(text) > 1 /\ Front(text) \in Grammar[Len(text) - 1].value
  BY <1>3, <1>5, WholeValue, Zenon
<1>7. Len(text) - 1 \in 1 .. MaxTokens - 1
  BY <1>1, <1>6, MaxTokensAssumption
<1> QED BY <1>6, <1>7, Zenon DEF Documents

LEMMA FailsOnNoDocument ==
    ASSUME Inv, Overflowed \/ Foretold
    PROVE  NoFalseAlarm
<1>0. Overflowed => NoFalseAlarm
  BY Zenon DEF Overflowed, NoFalseAlarm, Last
<1> SUFFICES ASSUME Inv, Foretold, expects = "failed",
                    NEW n \in 1 .. MaxTokens - 1, NEW document \in Grammar[n].value,
                    IsPrefix(text, Append(document, "end"))
             PROVE  FALSE
  BY <1>0, Zenon DEF NoFalseAlarm, Documents
<1> DEFINE T == Append(document, "end")
<1>1. n \in Nat /\ document \in Seq(Tokens) /\ Len(document) = n
  <2>1. n \in Nat
    OBVIOUS
  <2>2. document \in Words(n)
    BY <2>1, GrammarTyped, Zenon DEF PhrasesAreWords
  <2> QED BY <2>1, <2>2, Zenon DEF Words
<1>2. "end" \in Tokens
  BY Zenon DEF Tokens
<1>3. /\ T \in Seq(Tokens) /\ Len(T) = n + 1 /\ T[Len(T)] = "end"
      /\ \A i \in 1 .. n : T[i] = document[i]
  BY <1>1, <1>2
<1>4. Len(text) <= Len(T) /\ SubSeq(text, 1, Len(text)) = SubSeq(T, 1, Len(text))
  BY DEF IsPrefix
<1> HIDE DEF T
<1>5. Complete(T)
  BY <1>1, <1>3 DEF Complete
<1>6. Begins(text, T)
  <2>1. text \in Seq(Tokens) /\ Len(text) \in Nat
    BY DEF Inv, TypeOK
  <2>2. ASSUME NEW i \in 1 .. Len(text) PROVE T[i] = text[i]
    <3> DEFINE l == Len(text)
    <3>1. /\ SubSeq(text, 1, l)[i] = text[i] /\ SubSeq(T, 1, l)[i] = T[i]
      <4>1. l - 1 + 1 = l /\ 1 + i - 1 = i /\ 1 <= l + 1 /\ l <= Len(T) /\ i \in 1 .. l /\ l <= Len(text)
            /\ 1 \in Nat /\ l \in Nat
        BY <1>4, <2>1
      <4> HIDE DEF l
      <4>2. \A k \in 1 .. l - 1 + 1 : SubSeq(text, 1, l)[k] = text[1 + k - 1]
        BY <2>1, <4>1, PartOf
      <4>3. \A k \in 1 .. l - 1 + 1 : SubSeq(T, 1, l)[k] = T[1 + k - 1]
        BY <1>3, <4>1, PartOf
      <4> QED BY <4>1, <4>2, <4>3
    <3> QED BY <1>4, <3>1
  <2> QED BY <1>4, <2>2 DEF Begins
<1>7. Front(T) = document
  <2>1. Len(T) - 1 = n /\ n - 1 + 1 = n /\ 1 <= n + 1 /\ n <= Len(T) /\ 1 \in Nat
        /\ \A k \in 1 .. n : 1 + k - 1 = k
    BY <1>1, <1>3
  <2>2. /\ SubSeq(T, 1, n) \in Words(n - 1 + 1)
        /\ \A k \in 1 .. n - 1 + 1 : SubSeq(T, 1, n)[k] = T[1 + k - 1]
    BY <1>1, <1>3, <2>1, PartOf
  <2>3. /\ SubSeq(T, 1, n) \in Seq(Tokens) /\ Len(SubSeq(T, 1, n)) = n
        /\ \A k \in 1 .. n : SubSeq(T, 1, n)[k] = document[k]
    BY <1>3, <2>1, <2>2 DEF Words
  <2>4. SubSeq(T, 1, n) = document
    BY <1>1, <2>3, SeqEqual
  <2> QED BY <2>1, <2>4, Zenon DEF Front
<1>8. ValueAt(T, 1, Len(T) - 1)
  <2>1. Len(T) > 1 /\ Len(T) - 1 = n
    BY <1>1, <1>3
  <2> QED BY <1>5, <1>7, <2>1, WholeValue, Zenon
<1>9. Foreseen(T, "failed", ref_stack, Len(text) + 1)
  BY <1>5, <1>6, <1>8, Zenon DEF Foretold
<1> QED BY <1>9, AheadAt, Zenon DEF Foreseen

(* What the parser takes for a document is one by the grammar of RFC 8259, *)
(* for texts of every length and whatever the depth of their arrays and    *)
(* objects: the loop of json.hpp:10891-11169 is right without recursion.   *)
THEOREM ParserAccepts == Spec => []AcceptsOnlyDocuments
<1>1. Init => Inv /\ (Overflowed \/ Foretold) /\ Ended
  BY InitInv, InitForetold
<1>2. Inv /\ (Overflowed \/ Foretold) /\ Ended /\ [Next]_vars
          => (Inv /\ (Overflowed \/ Foretold) /\ Ended)'
  BY NextInv, NextForetold
<1> QED BY <1>1, <1>2, AcceptsDocuments, PTL DEF Spec

(* And it refuses no document but one with a number that overflows:        *)
(* parse() throws (json.hpp:10891-11169, its sax->parse_error) only at     *)
(* such a number or for a text that nothing could still complete.          *)
THEOREM ParserRejects == Spec => []NoFalseAlarm
<1>1. Init => Inv /\ (Overflowed \/ Foretold) /\ Ended
  BY InitInv, InitForetold
<1>2. Inv /\ (Overflowed \/ Foretold) /\ Ended /\ [Next]_vars
          => (Inv /\ (Overflowed \/ Foretold) /\ Ended)'
  BY NextInv, NextForetold
<1> QED BY <1>1, <1>2, FailsOnNoDocument, PTL DEF Spec
=============================================================================
