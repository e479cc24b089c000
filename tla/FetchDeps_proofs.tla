---------------------------- MODULE FetchDeps_proofs ----------------------------
(***************************************************************************)
(* Proofs about FetchDeps, for every catalog, however deep and circular.   *)
(***************************************************************************)
EXTENDS FetchDeps, SequenceTheorems, FiniteSetTheorems, TLAPS

USE RootAssumption, CatalogsAssumption, DepthAssumption

LEMMA CatalogType ==
  ASSUME requires \in Catalogs, NEW i \in Images
  PROVE  requires[i] \in Seq(Dependency)
  OBVIOUS

Steps == {"fetch", "validate_structure", "get_validated_image", "dependencies"}
LabelKinds == {"complete", "partial"}

\* A call's fields, one by one.
LEMMA CallFields ==
  ASSUME NEW call \in Call
  PROVE  /\ call.image \in Images /\ call.labels \in LabelKinds
         /\ call.images \in Seq(Images) /\ call.at \in Nat \ {0} /\ call.step \in Steps
  BY DEF Call, Steps, LabelKinds

LEMMA CallMade ==
  ASSUME NEW image \in Images, NEW labels \in LabelKinds, NEW list \in Seq(Images),
         NEW at \in Nat \ {0}, NEW step \in Steps
  PROVE  [image |-> image, labels |-> labels, images |-> list, at |-> at, step |-> step] \in Call
<1> DEFINE Lists == Seq(Images)
           Ats == Nat \ {0}
<1>1. list \in Lists /\ at \in Ats
  OBVIOUS
<1> HIDE DEF Lists, Ats
<1>2. [image |-> image, labels |-> labels, images |-> list, at |-> at, step |-> step]
        \in [image : Images, labels : LabelKinds, images : Lists, at : Ats, step : Steps]
  BY <1>1, Zenon
<1> QED
  BY <1>2 DEF Call, Steps, LabelKinds, Lists, Ats

LEMMA RecordChanged ==
  ASSUME NEW A, NEW B, NEW C, NEW D, NEW E,
         NEW r \in [image : A, labels : B, images : C, at : D, step : E],
         NEW list \in C, NEW at \in D, NEW step \in E
  PROVE  /\ [r EXCEPT !.step = step]
              \in [image : A, labels : B, images : C, at : D, step : E]
         /\ [r EXCEPT !.step = step, !.images = list]
              \in [image : A, labels : B, images : C, at : D, step : E]
         /\ [r EXCEPT !.at = at, !.images = list]
              \in [image : A, labels : B, images : C, at : D, step : E]
  OBVIOUS

LEMMA CallChanged ==
  ASSUME NEW call \in Call, NEW list \in Seq(Images), NEW at \in Nat \ {0}, NEW step \in Steps
  PROVE  /\ [call EXCEPT !.step = step] \in Call
         /\ [call EXCEPT !.step = step, !.images = list] \in Call
         /\ [call EXCEPT !.at = at, !.images = list] \in Call
<1> DEFINE Lists == Seq(Images)
           Ats == Nat \ {0}
<1>1. call \in [image : Images, labels : LabelKinds, images : Lists, at : Ats, step : Steps]
  BY DEF Call, Steps, LabelKinds
<1>2. list \in Lists /\ at \in Ats
  OBVIOUS
<1>3. Call = [image : Images, labels : LabelKinds, images : Lists, at : Ats, step : Steps]
  BY DEF Call, Steps, LabelKinds
<1> HIDE DEF Lists, Ats
<1> QED
  BY <1>1, <1>2, <1>3, RecordChanged

LEMMA NewCallType ==
  ASSUME NEW d \in Dependency, NEW list \in Seq(Images)
  PROVE  NewCall(d, list) \in Call
<1>1. d.image \in Images /\ d.labels \in LabelKinds
  BY DEF Dependency, LabelKinds
<1>2. "fetch" \in Steps /\ 1 \in Nat \ {0}
  BY DEF Steps
<1> QED
  BY <1>1, <1>2, CallMade DEF NewCall

\* What replacing the innermost call does to the stack.
LEMMA ReplaceLast ==
  ASSUME NEW stack \in Seq(Call), NEW n \in Nat \ {0}, n <= Len(stack), NEW call \in Call,
         NEW new, new = [SubSeq(stack, 1, n) EXCEPT ![n] = call]
  PROVE  /\ new \in Seq(Call)
         /\ Len(new) = n
         /\ new[n] = call
         /\ \A m \in 1 .. n - 1 : new[m] = stack[m]
<1> DEFINE sub == SubSeq(stack, 1, n)
<1>1. sub \in Seq(Call) /\ Len(sub) = n /\ \A m \in 1 .. n : sub[m] = stack[m]
  BY SubSeqProperties
<1> HIDE DEF sub
<1>2. n \in 1 .. Len(sub) /\ new = [sub EXCEPT ![n] = call]
  BY <1>1 DEF sub
<1>3. /\ new \in Seq(Call) /\ Len(new) = Len(sub)
      /\ \A j \in 1 .. Len(sub) : new[j] = IF j = n THEN call ELSE sub[j]
  BY <1>1, <1>2, ExceptSeq
<1> QED
  BY <1>1, <1>2, <1>3

LEMMA ReplaceTop ==
  ASSUME NEW call \in Call, calls \in Seq(Call), Len(calls) > 0, Becomes(call)
  PROVE  /\ calls' \in Seq(Call)
         /\ Len(calls') = Len(calls)
         /\ calls'[Len(calls)] = call
         /\ \A m \in 1 .. Len(calls) - 1 : calls'[m] = calls[m]
<1> DEFINE n == Len(calls)
<1>1. n \in 1 .. Len(calls) /\ calls' = [calls EXCEPT ![n] = call]
  BY DEF Becomes
<1>2. n \in Nat /\ n = Len(calls)
  OBVIOUS
<1> HIDE DEF n
<1>3. /\ calls' \in Seq(Call) /\ Len(calls') = Len(calls)
      /\ \A j \in 1 .. Len(calls) : calls'[j] = IF j = n THEN call ELSE calls[j]
  BY <1>1, ExceptSeq
<1> QED
  BY <1>1, <1>2, <1>3

\* The types, and what a step may assume of the innermost call.
Typing == TypeOK /\ (outcome = "calling" => Len(calls) > 0)

LEMMA TopType == ASSUME Typing, outcome = "calling" PROVE Top \in Call /\ Len(calls) \in Nat \ {0}
  BY DEF Typing, TypeOK, Top

LEMMA TypingInit == Init => Typing
<1> SUFFICES ASSUME Init PROVE Typing
  OBVIOUS
<1>1. withDeps \in BOOLEAN
  BY Zenon DEF Init
<1>2. [image |-> Root, labels |-> "complete"] \in Dependency
  BY DEF Dependency
<1>3. calls \in Seq(Call) /\ Len(calls) = 1
  <2>1. NewCall([image |-> Root, labels |-> "complete"], <<>>) \in Call
    BY <1>2, NewCallType, EmptySeq
  <2> QED
    BY <2>1 DEF Init
<1> QED
  BY <1>1, <1>3 DEF Init, Typing, TypeOK

LEMMA RequiredType == ASSUME Typing, outcome = "calling" PROVE Required \in Seq(Dependency)
  BY TopType, CatalogType DEF Required, Typing, TypeOK, Call

LEMMA TypingStep == Typing /\ [Next]_vars => Typing'
<1> SUFFICES ASSUME Typing, [Next]_vars PROVE Typing'
  OBVIOUS
<1> DEFINE StackTyped == /\ calls' \in Seq(Call) /\ Len(calls') <= MaxDepth
                         /\ outcome' = "calling" => Len(calls') > 0
<1> USE DEF Typing, TypeOK
<1>1. withDeps' \in BOOLEAN
  BY Zenon DEF Next, Step, Fetch, FetchFails, ValidateStructure, GetValidatedImage, Require,
     Overflow, Exhausts, Stalls, Return, ReturnLast, Fails, Ends, Over, world, vars
<1>2. requires' \in Catalogs /\ kind' \in [Images -> Kinds] /\ made' \in Nat \ {0}
  <2>1. requires' \in Catalogs /\ kind' \in [Images -> Kinds]
    BY DEF Next, Step, Fetch, FetchFails, ValidateStructure, GetValidatedImage, Require,
       Overflow, Exhausts, Stalls, Return, ReturnLast, Fails, Ends, Over, world, vars
  <2>2. made' = made \/ made' = made + 1
    BY DEF Next, Step, Fetch, FetchFails, ValidateStructure, GetValidatedImage, Require,
       Overflow, Exhausts, Stalls, Return, Resume, ReturnLast, Fails, Ends, Over, world, vars
  <2> QED
    BY <2>1, <2>2
<1>3. ASSUME NEW step \in {"validate_structure", "get_validated_image", "dependencies"},
             outcome = "calling", Goto(step)
      PROVE  calls' \in Seq(Call) /\ Len(calls') = Len(calls)
  <2>1. Top \in Call /\ step \in Steps
    BY <1>3, TopType DEF Steps
  <2>3. [Top EXCEPT !.step = step] \in Call
    BY <2>1, CallFields, CallChanged
  <2> QED
    BY <1>3, <2>3, ReplaceTop, TopType DEF Goto
<1>4. CASE Fails \/ Ends("crashed") \/ Ends("exhausted") \/ Ends("stalled")
  <2>1. calls' = <<>> /\ UNCHANGED <<cached, images>>
        /\ outcome' \in {"failed", "crashed", "exhausted", "stalled"}
    BY <1>4 DEF Fails, Ends
  <2>2. calls' \in Seq(Call) /\ Len(calls') <= MaxDepth
    BY <2>1
  <2> QED
    BY <1>1, <1>2, <2>1, <2>2
<1>5. CASE Fetch
  <2>1. cached' \subseteq Images
    BY <1>5, TopType DEF Fetch, At, Call
  <2> QED
    BY <1>1, <1>2, <1>3, <1>5, <2>1, TopType DEF Fetch, At
<1>6. CASE ValidateStructure
  BY <1>1, <1>2, <1>3, <1>4, <1>6, TopType DEF ValidateStructure, At
<1>7. CASE GetValidatedImage
  <2>1. CASE kind[Top.image] = "bad manifest"
    BY <1>4, <1>7, <2>1 DEF GetValidatedImage
  <2>2. CASE kind[Top.image] # "bad manifest"
    <3> DEFINE call == [Top EXCEPT !.step = "dependencies", !.images = Append(@, Top.image)]
    <3>1. outcome = "calling" /\ Becomes(call) /\ UNCHANGED <<cached, outcome, images>>
      BY <1>7, <2>2 DEF GetValidatedImage, At
    <3>2. Top \in Call /\ Top.at \in Nat \ {0}
      BY <3>1, TopType, CallFields
    <3>3. Append(Top.images, Top.image) \in Seq(Images)
      BY <3>2, CallFields, AppendProperties
    <3>5. call \in Call
      BY <3>2, <3>3, CallChanged DEF Steps
    <3> HIDE DEF call
    <3> QED
      BY <1>1, <1>2, <3>1, <3>5, ReplaceTop, TopType
  <2> QED
    BY <2>1, <2>2
<1>8. CASE Require
  <2>1. /\ outcome = "calling" /\ Top.at <= Len(Required) /\ Len(calls) < MaxDepth
        /\ calls' = Append(calls, NewCall(Required[Top.at], Top.images))
        /\ UNCHANGED <<cached, outcome, images>>
    BY <1>8 DEF Require, At
  <2>2. /\ Top.at \in Nat \ {0} /\ Top.images \in Seq(Images)
        /\ Required \in Seq(Dependency)
    BY <2>1, RequiredType, TopType, CallFields
  <2>3. Required[Top.at] \in Dependency
    BY <2>1, <2>2
  <2>4. NewCall(Required[Top.at], Top.images) \in Call
    BY <2>2, <2>3, NewCallType
  <2> QED
    BY <1>1, <1>2, <2>1, <2>4, TopType
<1>9. CASE Overflow \/ Exhausts \/ Stalls
  BY <1>4, <1>9 DEF Overflow, Exhausts, Stalls
<1>10. CASE Return
  <2> DEFINE n == Len(calls) - 1
             call == [calls[n] EXCEPT !.at = @ + 1, !.images = @ \o Top.images]
  <2>1. /\ outcome = "calling" /\ n > 0
        /\ calls' = [SubSeq(calls, 1, n) EXCEPT ![n] = call]
        /\ UNCHANGED <<cached, outcome, images>>
    BY <1>10 DEF Return, At, Resume, Caller
  <2>2. n \in Nat \ {0} /\ n <= Len(calls) /\ calls[n] \in Call /\ Top \in Call
    BY <2>1, TopType
  <2>5. /\ calls[n].images \o Top.images \in Seq(Images)
        /\ calls[n].at + 1 \in Nat \ {0} /\ calls[n].step \in Steps
    BY <2>2, CallFields, ConcatProperties
  <2>6. call \in Call
    BY <2>2, <2>5, CallChanged
  <2> HIDE DEF call
  <2>4. calls' \in Seq(Call) /\ Len(calls') = n
    BY <2>1, <2>2, <2>6, ReplaceLast
  <2> QED
    BY <1>1, <1>2, <2>1, <2>2, <2>4
<1>11. CASE ReturnLast
  <2>1. Top.images \in Seq(Images)
    BY <1>11, TopType DEF ReturnLast, At, Call
  <2> QED
    BY <1>1, <1>2, <1>11, <2>1 DEF ReturnLast
<1>12. CASE UNCHANGED vars
  BY <1>12 DEF vars
<1> QED
  BY <1>4, <1>5, <1>6, <1>7, <1>8, <1>9, <1>10, <1>11, <1>12 DEF Next, Step, FetchFails, Over

LEMMA TypingAlways == Spec => []Typing
  BY TypingInit, TypingStep, PTL DEF Spec

-----------------------------------------------------------------------------
(***************************************************************************)
(* The lists.                                                              *)
(***************************************************************************)

LEMMA CallsInvInit == Init => CallsInv
<1> SUFFICES ASSUME Init PROVE CallsInv
  OBVIOUS
<1>1. Sound(<<>>, Valid)
  BY DEF Sound
<1>2. /\ calls = <<NewCall([image |-> Root, labels |-> "complete"], <<>>)>>
      /\ images = <<>> /\ outcome = "calling"
  BY DEF Init
<1>3. /\ Len(calls) = 1 /\ calls[1].images = <<>> /\ calls[1].image = Root
      /\ calls[1].step = "fetch"
  BY <1>2 DEF NewCall
<1>4. CallInv(1)
  BY <1>1, <1>3 DEF CallInv
<1>5. \A n \in 1 .. Len(calls) : n = 1
  BY <1>3
<1>6. \A n \in 1 .. Len(calls) : CallInv(n)
  BY <1>4, <1>5
<1> QED
  BY <1>1, <1>2, <1>3, <1>6 DEF CallsInv

\* A list stays sound when the set grows, when a sound one is put behind it
\* and when a member of the set is.
LEMMA SoundGrows ==
  ASSUME NEW list, NEW G, NEW H, Sound(list, G), G \subseteq H
  PROVE  Sound(list, H)
  BY DEF Sound

LEMMA SoundAppend ==
  ASSUME NEW list \in Seq(Images), NEW G, Sound(list, G),
         NEW i \in Images, Len(list) = 0 => i = Root, i \in G
  PROVE  Sound(Append(list, i), G) /\ Len(Append(list, i)) > 0
  BY DEF Sound

LEMMA SoundConcat ==
  ASSUME NEW s \in Seq(Images), NEW t \in Seq(Images), NEW G, Len(s) > 0,
         Sound(s, G), Sound(t, G)
  PROVE  Sound(s \o t, G) /\ Len(s \o t) > 0
  BY DEF Sound

LEMMA ValidGrows ==
  ASSUME cached \subseteq cached', kind' = kind PROVE Valid \subseteq Valid'
  BY DEF Valid

\* A call that the step leaves alone.
LEMMA SameCall ==
  ASSUME NEW n, CallInv(n), calls'[n] = calls[n], cached \subseteq cached', kind' = kind,
         n < Len(calls') => calls[n].step = "dependencies"
  PROVE  CallInv(n)'
<1>1. Sound(calls[n].images, Valid')
  BY ValidGrows, SoundGrows DEF CallInv
<1>2. Sound(calls[n].images, Valid)'
  BY <1>1
<1> QED
  BY <1>2 DEF CallInv

\* A call whose fields after the step are as CallInv wants them.
LEMMA CallOk ==
  ASSUME NEW n, Sound(calls'[n].images, Valid'),
         Len(calls'[n].images) = 0 =>
           n = 1 /\ calls'[n].image = Root /\ calls'[n].step # "dependencies",
         n < Len(calls') => calls'[n].step = "dependencies",
         calls'[n].step # "fetch" => calls'[n].image \in cached',
         calls'[n].step = "get_validated_image" => kind'[calls'[n].image] # "no ACI"
  PROVE  CallInv(n)'
<1>1. Sound(calls[n].images, Valid)'
  OBVIOUS
<1> QED
  BY <1>1 DEF CallInv

LEMMA CallsInvStep == Typing /\ CallsInv /\ [Next]_vars => CallsInv'
<1> SUFFICES ASSUME Typing, CallsInv, [Next]_vars PROVE CallsInv'
  OBVIOUS
<1>0. \A n \in 1 .. Len(calls) : CallInv(n)
  BY DEF CallsInv
<1>1. cached \subseteq cached' /\ kind' = kind
  BY DEF Next, Step, Fetch, FetchFails, ValidateStructure, GetValidatedImage, Require,
     Overflow, Exhausts, Stalls, Return, ReturnLast, Fails, Ends, Over, Goto, world, vars
<1>2. Typing'
  BY TypingStep
<1>4. images' = images => Sound(images, Valid)'
  <2>1. Sound(images, Valid')
    BY <1>1, ValidGrows, SoundGrows DEF CallsInv
  <2> QED
    BY <2>1
\* A step that changes only the innermost call.
<1>5. ASSUME NEW top \in Nat, top = Len(calls), outcome = "calling",
             UNCHANGED <<outcome, images>>, Len(calls') = Len(calls),
             \A m \in 1 .. Len(calls) - 1 : calls'[m] = calls[m],
             CallInv(top)'
      PROVE  CallsInv'
  <2>1. Len(calls) \in Nat \ {0}
    BY <1>5, TopType
  <2>2. ASSUME NEW n \in 1 .. Len(calls) - 1 PROVE CallInv(n)'
    <3>1. CallInv(n) /\ calls'[n] = calls[n] /\ n < Len(calls)
      BY <1>0, <1>5, <2>1
    <3>2. calls[n].step = "dependencies"
      BY <3>1 DEF CallInv
    <3> QED
      BY <1>1, <3>1, <3>2, SameCall
  <2>3. \A n \in 1 .. Len(calls) : CallInv(n)'
    BY <1>5, <2>1, <2>2
  <2>4. (\A n \in 1 .. Len(calls) : CallInv(n))'
    BY <1>5, <2>3
  <2> QED
    BY <1>4, <1>5, <2>1, <2>4 DEF CallsInv
\* The innermost call comes to its next step.
<1>6. ASSUME NEW step \in {"validate_structure", "get_validated_image"}, outcome = "calling",
             Top.step # "dependencies", Goto(step), UNCHANGED <<outcome, images>>,
             Top.image \in cached',
             step = "get_validated_image" => kind[Top.image] # "no ACI"
      PROVE  CallsInv'
  <2> DEFINE call == [Top EXCEPT !.step = step]
  <2>0. PICK n \in Nat \ {0} : n = Len(calls)
    BY <1>6, TopType
  <2>1. Top \in Call /\ Top = calls[n] /\ n \in 1 .. Len(calls)
    <3>1. Top \in Call
      BY <1>6, TopType
    <3> QED
      BY <2>0, <3>1 DEF Top
  <2>2. CallInv(n)
    BY <1>0, <2>1
  <2>3. call \in Call
    BY <2>1, CallFields, CallChanged DEF Steps
  <2>4. call.image = Top.image /\ call.images = Top.images /\ call.step = step
    BY <2>1 DEF Call
  <2>5. Becomes(call)
    BY <1>6 DEF Goto
  <2> HIDE DEF call
  <2>6. /\ Len(calls') = n /\ calls'[n] = call
        /\ \A m \in 1 .. n - 1 : calls'[m] = calls[m]
    BY <2>0, <2>3, <2>5, ReplaceTop DEF Typing, TypeOK
  <2>7. Sound(calls[n].images, Valid')
    BY <1>1, <2>2, ValidGrows, SoundGrows DEF CallInv
  <2>8. CallInv(n)'
    <3>1. Sound(calls'[n].images, Valid')
      BY <2>1, <2>4, <2>6, <2>7
    <3>2. /\ Len(calls'[n].images) = 0 => n = 1 /\ calls'[n].image = Root
          /\ calls'[n].step # "dependencies" /\ ~(n < Len(calls'))
      BY <1>6, <2>0, <2>1, <2>2, <2>4, <2>6 DEF CallInv
    <3>3. /\ calls'[n].image \in cached'
          /\ calls'[n].step = "get_validated_image" => kind'[calls'[n].image] # "no ACI"
      BY <1>1, <1>6, <2>1, <2>4, <2>6
    <3> QED
      BY <3>1, <3>2, <3>3, CallOk
  <2> QED
    BY <1>5, <1>6, <2>0, <2>6, <2>8
<1>7. CASE Fetch
  BY <1>6, <1>7 DEF Fetch, At
<1>8. CASE Fails
  <2>1. Len(calls') = 0 /\ outcome' = "failed" /\ images' = images
    BY <1>8 DEF Fails, Ends
  <2>2. (\A n \in 1 .. Len(calls) : CallInv(n))'
    BY <2>1
  <2> QED
    BY <1>4, <2>1, <2>2 DEF CallsInv
<1>9. CASE ValidateStructure
  <2>1. CASE kind[Top.image] = "no ACI"
    BY <1>8, <1>9, <2>1 DEF ValidateStructure
  <2>2. CASE kind[Top.image] # "no ACI"
    <3>1. /\ outcome = "calling" /\ Top.step = "validate_structure"
          /\ Goto("get_validated_image") /\ UNCHANGED <<cached, outcome, images>>
      BY <1>9, <2>2 DEF ValidateStructure, At
    <3>2. Top.image \in cached
      <4>1. PICK n \in 1 .. Len(calls) : n = Len(calls)
        BY <3>1, TopType
      <4>2. CallInv(n) /\ Top = calls[n]
        BY <1>0, <4>1 DEF Top
      <4> QED
        BY <3>1, <4>2 DEF CallInv
    <3> QED
      BY <1>6, <2>2, <3>1, <3>2
  <2> QED
    BY <2>1, <2>2
<1>10. CASE GetValidatedImage
  <2>1. CASE kind[Top.image] = "bad manifest"
    BY <1>8, <1>10, <2>1 DEF GetValidatedImage
  <2>2. CASE kind[Top.image] # "bad manifest"
    <3> DEFINE list == Append(Top.images, Top.image)
               call == [Top EXCEPT !.step = "dependencies", !.images = list]
    <3>1. /\ outcome = "calling" /\ Top.step = "get_validated_image" /\ Becomes(call)
          /\ UNCHANGED <<kind, cached, outcome, images>>
      BY <1>10, <2>2 DEF GetValidatedImage, At, Top, world
    <3>0. PICK n \in Nat \ {0} : n = Len(calls)
      BY <3>1, TopType
    <3>2. Top \in Call /\ Top = calls[n] /\ n \in 1 .. Len(calls)
      BY <3>0, <3>1, TopType DEF Top
    <3>3. CallInv(n)
      BY <1>0, <3>2
    <3>4. Top.image \in Valid
      BY <2>2, <3>1, <3>2, <3>3 DEF CallInv, Valid
    <3>5. /\ Top.images \in Seq(Images) /\ Sound(Top.images, Valid) /\ Top.image \in Images
          /\ Len(Top.images) = 0 => Top.image = Root
      BY <3>2, <3>3, CallFields DEF CallInv
    <3>6. Sound(list, Valid) /\ Len(list) > 0 /\ list \in Seq(Images)
      BY <3>4, <3>5, SoundAppend
    <3> HIDE DEF list
    <3>7. call \in Call /\ call.image = Top.image /\ call.images = list /\ call.step = "dependencies"
      <4>1. call \in Call
        BY <3>2, <3>6, CallFields, CallChanged DEF Steps
      <4>2. call.image = Top.image /\ call.images = list /\ call.step = "dependencies"
        BY <3>2 DEF Call
      <4> QED
        BY <4>1, <4>2
    <3> HIDE DEF call
    <3>8. /\ Len(calls') = n /\ calls'[n] = call
          /\ \A m \in 1 .. n - 1 : calls'[m] = calls[m]
      BY <3>0, <3>1, <3>7, ReplaceTop DEF Typing, TypeOK
    <3>9. Valid' = Valid
      BY <3>1 DEF Valid
    <3>10. CallInv(n)'
      <4>1. Sound(calls'[n].images, Valid') /\ Len(calls'[n].images) > 0
        BY <3>6, <3>7, <3>8, <3>9
      <4>2. calls'[n].step = "dependencies" /\ calls'[n].image \in cached'
        BY <3>1, <3>4, <3>7, <3>8 DEF Valid
      <4>3. Len(calls'[n].images) # 0
        BY <3>6, <3>7, <3>8
      <4> QED
        BY <4>1, <4>2, <4>3, CallOk
    <3> QED
      BY <1>5, <3>0, <3>1, <3>8, <3>10
  <2> QED
    BY <2>1, <2>2
<1>11. CASE Require
  <2> DEFINE call == NewCall(Required[Top.at], Top.images)
  <2>1. /\ outcome = "calling" /\ Top.step = "dependencies" /\ Top.at <= Len(Required)
        /\ calls' = Append(calls, call)
        /\ UNCHANGED <<kind, cached, outcome, images>>
    BY <1>11 DEF Require, At, Top, Required, world
  <2>0. PICK n \in Nat \ {0} : n = Len(calls)
    BY <2>1, TopType
  <2>2. Top \in Call /\ Top = calls[n] /\ n \in 1 .. Len(calls)
    BY <2>0, <2>1, TopType DEF Top
  <2>3. CallInv(n)
    BY <1>0, <2>2
  <2>4. Sound(Top.images, Valid) /\ Len(Top.images) # 0
    BY <2>1, <2>2, <2>3 DEF CallInv
  <2>5. /\ Top.at \in Nat \ {0} /\ Top.images \in Seq(Images) /\ Required \in Seq(Dependency)
    BY <2>1, <2>2, RequiredType, CallFields
  <2>6. call \in Call
    BY <2>1, <2>5, NewCallType
  <2>7. call.images = Top.images /\ call.step = "fetch"
    BY DEF NewCall
  <2> HIDE DEF call
  <2>8. /\ Len(calls') = n + 1 /\ calls'[n + 1] = call
        /\ \A m \in 1 .. n : calls'[m] = calls[m]
    BY <2>0, <2>1, <2>6 DEF Typing, TypeOK
  <2>9. Valid' = Valid
    BY <2>1 DEF Valid
  <2>13. PICK new \in Nat : new = n + 1
    OBVIOUS
  <2>10. CallInv(new)'
    <3>1. Sound(calls'[new].images, Valid') /\ Len(calls'[new].images) # 0
      BY <2>4, <2>7, <2>8, <2>9, <2>13
    <3>2. calls'[new].step = "fetch" /\ ~(new < Len(calls'))
      BY <2>7, <2>8, <2>13
    <3> QED
      BY <3>1, <3>2, CallOk
  <2>11. ASSUME NEW m \in 1 .. n PROVE CallInv(m)'
    <3>1. CallInv(m) /\ calls'[m] = calls[m]
      BY <1>0, <2>0, <2>8, <2>11
    <3>2. m = n \/ m < Len(calls)
      BY <2>0
    <3>3. calls[m].step = "dependencies"
      BY <2>1, <2>2, <3>1, <3>2 DEF CallInv
    <3> QED
      BY <1>1, <3>1, <3>3, SameCall
  <2>12. (\A m \in 1 .. Len(calls) : CallInv(m))'
    <3>1. \A m \in 1 .. n + 1 : m \in 1 .. n \/ m = new
      BY <2>13
    <3>2. \A m \in 1 .. n + 1 : CallInv(m)'
      BY <2>10, <2>11, <3>1
    <3> QED
      BY <2>8, <3>2
  <2> QED
    BY <1>4, <2>0, <2>1, <2>2, <2>8, <2>12 DEF CallsInv
<1>12. CASE Overflow \/ Exhausts \/ Stalls
  <2>1. /\ Len(calls') = 0 /\ outcome' \in {"crashed", "exhausted", "stalled"}
        /\ images' = images
    BY <1>12 DEF Overflow, Exhausts, Stalls, Ends
  <2>2. (\A n \in 1 .. Len(calls) : CallInv(n))'
    BY <2>1
  <2> QED
    BY <1>4, <2>1, <2>2 DEF CallsInv
<1>13. CASE Return
  <2>0. PICK n \in Nat \ {0} : n = Len(calls) - 1
    BY <1>13, TopType DEF Return, At, Resume
  <2> DEFINE list == calls[n].images \o Top.images
             call == [calls[n] EXCEPT !.at = @ + 1, !.images = list]
  <2>1. /\ outcome = "calling" /\ Top.step = "dependencies"
        /\ calls' = [SubSeq(calls, 1, n) EXCEPT ![n] = call]
        /\ UNCHANGED <<kind, cached, outcome, images>>
    BY <1>13, <2>0 DEF Return, At, Resume, Caller, Top, world
  <2>2. /\ n < Len(calls) /\ n \in 1 .. Len(calls) /\ calls[n] \in Call /\ Top \in Call
        /\ calls \in Seq(Call) /\ Top = calls[n + 1] /\ n + 1 \in 1 .. Len(calls)
    <3>1. Top \in Call
      BY <2>1, TopType
    <3>2. calls \in Seq(Call) /\ Len(calls) = n + 1
      BY <2>0 DEF Typing, TypeOK
    <3>3. n + 1 \in 1 .. Len(calls) /\ n \in 1 .. Len(calls)
      BY <3>2
    <3>4. calls[n] \in Call
      BY <3>2, <3>3
    <3>5. Top = calls[n + 1]
      BY <3>2 DEF Top
    <3> QED
      BY <3>1, <3>2, <3>3, <3>4, <3>5
  <2>14. PICK last \in 1 .. Len(calls) : last = n + 1
    BY <2>2
  <2>3. CallInv(n) /\ CallInv(last)
    BY <1>0, <2>2
  <2>4. /\ Sound(calls[n].images, Valid) /\ Sound(Top.images, Valid)
        /\ calls[n].step = "dependencies" /\ Len(calls[n].images) # 0
        /\ calls[n].image \in cached
    BY <2>0, <2>1, <2>2, <2>3, <2>14 DEF CallInv
  <2>5. calls[n].images \in Seq(Images) /\ Top.images \in Seq(Images) /\ calls[n].at + 1 \in Nat \ {0}
    BY <2>2, CallFields
  <2>6. Sound(list, Valid) /\ Len(list) > 0 /\ list \in Seq(Images)
    <3>1. Len(calls[n].images) > 0
      BY <2>4, <2>5
    <3>2. PICK s \in Seq(Images), t \in Seq(Images) : s = calls[n].images /\ t = Top.images
      BY <2>5
    <3>3. Sound(s \o t, Valid) /\ Len(s \o t) > 0
      BY <2>4, <3>1, <3>2, SoundConcat
    <3>4. s \o t \in Seq(Images)
      BY ConcatProperties
    <3> QED
      BY <3>2, <3>3, <3>4
  <2> HIDE DEF list
  <2>7. /\ call.image = calls[n].image /\ call.images = list /\ call.step = "dependencies"
    BY <2>2, <2>4 DEF Call
  <2>8. call \in Call
    BY <2>2, <2>5, <2>6, CallFields, CallChanged
  <2> HIDE DEF call
  <2>9. /\ Len(calls') = n /\ calls'[n] = call
        /\ \A m \in 1 .. n - 1 : calls'[m] = calls[m]
    BY <2>1, <2>2, <2>8, ReplaceLast
  <2>10. Valid' = Valid
    BY <2>1 DEF Valid
  <2>11. CallInv(n)'
    <3>1. Sound(calls'[n].images, Valid') /\ Len(calls'[n].images) > 0
      BY <2>6, <2>7, <2>9, <2>10
    <3>2. calls'[n].step = "dependencies" /\ calls'[n].image \in cached'
      BY <2>1, <2>4, <2>7, <2>9
    <3>3. Len(calls'[n].images) # 0
      BY <2>6, <2>7, <2>9
    <3> QED
      BY <3>1, <3>2, <3>3, CallOk
  <2>12. ASSUME NEW m \in 1 .. n - 1 PROVE CallInv(m)'
    <3>1. CallInv(m) /\ calls'[m] = calls[m] /\ m < Len(calls)
      BY <1>0, <2>2, <2>9
    <3>2. calls[m].step = "dependencies"
      BY <3>1 DEF CallInv
    <3> QED
      BY <1>1, <3>1, <3>2, SameCall
  <2>13. (\A m \in 1 .. Len(calls) : CallInv(m))'
    <3>1. \A m \in 1 .. n : m \in 1 .. n - 1 \/ m = n
      OBVIOUS
    <3>2. \A m \in 1 .. n : CallInv(m)'
      BY <2>11, <2>12, <3>1
    <3> QED
      BY <2>9, <3>2
  <2> QED
    BY <1>4, <2>1, <2>2, <2>9, <2>13 DEF CallsInv
<1>14. CASE ReturnLast
  <2>1. /\ outcome = "calling" /\ Top.step = "dependencies" /\ Len(calls') = 0
        /\ outcome' = "fetched" /\ images' = Top.images /\ UNCHANGED <<kind, cached>>
    BY <1>14 DEF ReturnLast, At, world
  <2>2. Sound(Top.images, Valid) /\ Len(Top.images) > 0
    <3>0. PICK n \in 1 .. Len(calls) : n = Len(calls)
      BY <2>1, TopType
    <3>1. Top \in Call /\ Top = calls[n] /\ CallInv(n)
      BY <1>0, <2>1, <3>0, TopType DEF Top
    <3>2. Sound(Top.images, Valid) /\ Len(Top.images) # 0
      BY <2>1, <3>1 DEF CallInv
    <3>3. Top.images \in Seq(Images)
      BY <3>1, CallFields
    <3> QED
      BY <3>2, <3>3
  <2>3. Valid' = Valid
    BY <2>1 DEF Valid
  <2>4. Sound(images, Valid)' /\ Len(images') > 0
    BY <2>1, <2>2, <2>3
  <2>5. (\A m \in 1 .. Len(calls) : CallInv(m))'
    BY <2>1
  <2> QED
    BY <2>1, <2>4, <2>5 DEF CallsInv
<1>15. CASE UNCHANGED vars
  BY <1>15 DEF vars, CallsInv, CallInv, Sound, Valid
<1> QED
  BY <1>7, <1>8, <1>9, <1>10, <1>11, <1>12, <1>13, <1>14, <1>15
  DEF Next, Step, FetchFails, Over

-----------------------------------------------------------------------------
(***************************************************************************)
(* What the images need.                                                   *)
(***************************************************************************)

\* The elements of the lists the calls make, and what follows what in them.
LEMMA ElementsAppend ==
  ASSUME NEW s \in Seq(Images), NEW i \in Images
  PROVE  Append(s, i) \in Seq(Images) /\ Elements(Append(s, i)) = Elements(s) \cup {i}
<1> DEFINE t == Append(s, i)
<1>1. /\ t \in Seq(Images) /\ Len(t) = Len(s) + 1 /\ t[Len(s) + 1] = i
      /\ \A n \in 1 .. Len(s) : t[n] = s[n]
  OBVIOUS
<1> HIDE DEF t
<1>2. Elements(t) \subseteq Elements(s) \cup {i}
  <2>1. ASSUME NEW n \in 1 .. Len(t) PROVE t[n] \in Elements(s) \cup {i}
    <3>1. n \in 1 .. Len(s) \/ n = Len(s) + 1
      BY <1>1
    <3> QED
      BY <1>1, <3>1 DEF Elements
  <2> QED
    BY <2>1 DEF Elements
<1>3. Elements(s) \subseteq Elements(t)
  BY <1>1 DEF Elements
<1>4. i \in Elements(t)
  <2>1. Len(s) + 1 \in 1 .. Len(t)
    BY <1>1
  <2> QED
    BY <1>1, <2>1 DEF Elements
<1> QED
  BY <1>1, <1>2, <1>3, <1>4 DEF t

LEMMA ElementsConcat ==
  ASSUME NEW s \in Seq(Images), NEW t \in Seq(Images)
  PROVE  s \o t \in Seq(Images) /\ Elements(s \o t) = Elements(s) \cup Elements(t)
<1> DEFINE u == s \o t
<1>0. PICK l \in Nat : l = Len(s)
  OBVIOUS
<1>1. /\ u \in Seq(Images) /\ Len(u) = l + Len(t)
      /\ \A n \in 1 .. Len(u) : u[n] = IF n <= l THEN s[n] ELSE t[n - l]
  BY <1>0, ConcatProperties
<1> HIDE DEF u
<1>2. ASSUME NEW n \in 1 .. Len(u) PROVE u[n] \in Elements(s) \cup Elements(t)
  <2>1. CASE n <= l
    BY <1>0, <1>1, <2>1 DEF Elements
  <2>2. CASE ~(n <= l)
    <3>1. n - l \in 1 .. Len(t)
      BY <1>1, <2>2
    <3> QED
      BY <1>1, <2>2, <3>1 DEF Elements
  <2> QED
    BY <2>1, <2>2
<1>3. ASSUME NEW n \in 1 .. Len(s) PROVE s[n] \in Elements(u)
  <2>1. n \in 1 .. Len(u) /\ u[n] = s[n]
    BY <1>0, <1>1
  <2> QED
    BY <2>1 DEF Elements
<1>4. ASSUME NEW n \in 1 .. Len(t) PROVE t[n] \in Elements(u)
  <2>1. n + l \in 1 .. Len(u) /\ ~(n + l <= l) /\ (n + l) - l = n
    BY <1>1
  <2>2. u[n + l] = t[n]
    BY <1>1, <2>1
  <2> QED
    BY <2>1, <2>2 DEF Elements
<1>5. Elements(u) = Elements(s) \cup Elements(t)
  BY <1>2, <1>3, <1>4 DEF Elements
<1> QED
  BY <1>1, <1>5 DEF u

LEMMA FollowsAppend ==
  ASSUME NEW s \in Seq(Images), NEW a \in Images, NEW i, NEW j, a # i,
         Follows(i, j, s) \/ a = j
  PROVE  Follows(i, j, Append(s, a))
<1> DEFINE t == Append(s, a)
           last == Len(s) + 1
<1>1. /\ Len(t) = last /\ t[last] = a /\ last \in Nat /\ last = Len(s) + 1
      /\ \A n \in 1 .. Len(s) : t[n] = s[n]
  OBVIOUS
<1> HIDE DEF t, last
<1>2. ASSUME NEW p \in 1 .. Len(t), t[p] = i PROVE \E q \in p + 1 .. Len(t) : t[q] = j
  <2>1. p \in 1 .. Len(s) /\ s[p] = i
    BY <1>1, <1>2
  <2>2. CASE a = j
    BY <1>1, <2>1, <2>2
  <2>3. CASE Follows(i, j, s)
    <3>1. PICK q \in p + 1 .. Len(s) : s[q] = j
      BY <2>1, <2>3 DEF Follows
    <3>2. q \in 1 .. Len(s) /\ q \in p + 1 .. Len(t)
      BY <1>1, <2>1
    <3> QED
      BY <1>1, <3>1, <3>2
  <2> QED
    BY <2>2, <2>3
<1>3. Follows(i, j, t)
  BY <1>2 DEF Follows
<1> QED
  BY <1>3 DEF t

LEMMA FollowsConcat ==
  ASSUME NEW s \in Seq(Images), NEW t \in Seq(Images), NEW i, NEW j,
         Elements(s) \subseteq Elements(t), Follows(i, j, t)
  PROVE  Follows(i, j, s \o t)
<1> DEFINE u == s \o t
<1>0. PICK l \in Nat : l = Len(s)
  OBVIOUS
<1>1. /\ Len(u) = l + Len(t)
      /\ \A n \in 1 .. Len(u) : u[n] = IF n <= l THEN s[n] ELSE t[n - l]
  BY <1>0, ConcatProperties
<1> HIDE DEF u
\* A place of i in t is followed, in t.
<1>2. ASSUME NEW r \in 1 .. Len(t), t[r] = i PROVE \E q \in r + 1 + l .. Len(u) : u[q] = j
  <2>1. PICK q \in r + 1 .. Len(t) : t[q] = j
    BY <1>2 DEF Follows
  <2>2. q + l \in r + 1 + l .. Len(u) /\ q + l \in 1 .. Len(u) /\ ~(q + l <= l)
        /\ (q + l) - l = q
    BY <1>1, <2>1
  <2> QED
    BY <1>1, <2>1, <2>2
<1>3. ASSUME NEW p \in 1 .. Len(u), u[p] = i PROVE \E q \in p + 1 .. Len(u) : u[q] = j
  <2>1. CASE p <= l
    <3>1. i \in Elements(t)
      <4>1. p \in 1 .. Len(s) /\ s[p] = i
        BY <1>0, <1>1, <1>3, <2>1
      <4>2. i \in Elements(s)
        BY <4>1 DEF Elements
      <4> QED
        BY <4>2
    <3>2. PICK r \in 1 .. Len(t) : t[r] = i
      BY <3>1 DEF Elements
    <3>3. PICK q \in r + 1 + l .. Len(u) : u[q] = j
      BY <1>2, <3>2
    <3> QED
      BY <2>1, <3>3
  <2>2. CASE ~(p <= l)
    <3>1. p - l \in 1 .. Len(t) /\ t[p - l] = i
      BY <1>1, <1>3, <2>2
    <3>2. PICK q \in (p - l) + 1 + l .. Len(u) : u[q] = j
      BY <1>2, <3>1
    <3> QED
      BY <3>2
  <2> QED
    BY <2>1, <2>2
<1>4. Follows(i, j, u)
  BY <1>3 DEF Follows
<1> QED
  BY <1>4 DEF u

\* A closure is closed, and the least closed set.
LEMMA RequiredImages ==
  ASSUME requires \in Catalogs, NEW i \in Images, NEW k \in 1 .. Len(requires[i])
  PROVE  /\ requires[i][k] \in Elements(requires[i]) /\ requires[i][k] \in Dependency
         /\ requires[i][k].image \in RequiredBy(i) /\ requires[i][k].image \in Images
<1>1. requires[i] \in Seq(Dependency)
  BY CatalogType
<1>2. requires[i][k] \in Dependency /\ requires[i][k] \in Elements(requires[i])
  BY <1>1 DEF Elements
<1> QED
  BY <1>2 DEF Dependency, RequiredBy

LEMMA RequiredIndex ==
  ASSUME requires \in Catalogs, NEW i \in Images, NEW j \in RequiredBy(i)
  PROVE  j \in Images /\ \E k \in 1 .. Len(requires[i]) : requires[i][k].image = j
<1>1. PICK k \in 1 .. Len(requires[i]) : requires[i][k].image = j
  BY DEF RequiredBy, Elements
<1> QED
  BY <1>1, RequiredImages

LEMMA ClosureClosed ==
  ASSUME requires \in Catalogs, NEW i \in Images
  PROVE  /\ Closure(i) \subseteq Images /\ i \in Closure(i)
         /\ \A k \in Closure(i) : RequiredBy(k) \subseteq Closure(i)
<1>1. ASSUME NEW k \in Closure(i), NEW j \in RequiredBy(k) PROVE j \in Closure(i)
  <2>1. k \in Images /\ j \in Images
    BY RequiredIndex DEF Closure
  <2>2. ASSUME NEW S \in SUBSET Images, i \in S, \A m \in S : RequiredBy(m) \subseteq S
        PROVE  j \in S
    <3>1. k \in S
      BY <2>2 DEF Closure
    <3> QED
      BY <2>2, <3>1
  <2> QED
    BY <2>1, <2>2 DEF Closure
<1> QED
  BY <1>1 DEF Closure

LEMMA ClosureLeast ==
  ASSUME NEW i, NEW S \in SUBSET Images, i \in S, \A k \in S : RequiredBy(k) \subseteq S
  PROVE  Closure(i) \subseteq S
  BY DEF Closure

LEMMA ClosureTransitive ==
  ASSUME requires \in Catalogs, NEW i \in Images, NEW j \in Closure(i)
  PROVE  Closure(j) \subseteq Closure(i)
<1>1. j \in Images /\ Closure(i) \in SUBSET Images
  BY ClosureClosed
<1> QED
  BY <1>1, ClosureClosed, ClosureLeast

\* What an image needs is itself and what its dependencies need.
LEMMA ClosureSplit ==
  ASSUME requires \in Catalogs, NEW i \in Images, NEW j \in Closure(i)
  PROVE  j = i \/ \E k \in RequiredBy(i) : j \in Closure(k)
<1> DEFINE S == {i} \cup UNION {Closure(k) : k \in RequiredBy(i)}
<1>1. \A k \in RequiredBy(i) : k \in Images
  BY RequiredIndex
<1>2. S \in SUBSET Images
  BY <1>1, ClosureClosed
<1>3. ASSUME NEW k \in S PROVE RequiredBy(k) \subseteq S
  <2>1. CASE k = i
    BY <1>1, <2>1, ClosureClosed
  <2>2. CASE k # i
    <3>1. PICK m \in RequiredBy(i) : k \in Closure(m)
      BY <1>3, <2>2
    <3>2. RequiredBy(k) \subseteq Closure(m)
      BY <1>1, <3>1, ClosureClosed
    <3> QED
      BY <3>1, <3>2
  <2> QED
    BY <2>1, <2>2
<1>4. i \in S
  OBVIOUS
<1> HIDE DEF S
<1>5. j \in S
  BY <1>2, <1>3, <1>4, ClosureLeast
<1> QED
  BY <1>5 DEF S

LEMMA SettledGrows ==
  ASSUME NEW i, NEW s, NEW t, Settled(i, s), Elements(s) \subseteq Elements(t)
  PROVE  Settled(i, t)
  BY DEF Settled

\* When every dependency of an image in the list is settled so is the image:
\* were it in a circle one of them would be.
LEMMA SettledByAll ==
  ASSUME requires \in Catalogs, NEW i \in Images, NEW list, i \in Elements(list),
         \A d \in Elements(requires[i]) : d.labels = "complete" /\ Settled(d.image, list)
  PROVE  Settled(i, list)
<1>1. \A k \in RequiredBy(i) : k \in Images /\ Settled(k, list)
  BY RequiredIndex DEF RequiredBy
<1>2. ~InCycle(i)
  <2> SUFFICES ASSUME NEW k \in RequiredBy(i), i \in Closure(k) PROVE FALSE
    BY DEF InCycle
  <2>1. ~InCycle(i)
    BY <1>1 DEF Settled
  <2> QED
    BY <2>1 DEF InCycle
<1>3. ASSUME NEW j \in Closure(i)
      PROVE  /\ j \in Elements(list) /\ ~InCycle(j)
             /\ \A d \in Elements(requires[j]) : d.labels = "complete"
  <2>1. CASE j = i
    BY <1>2, <2>1
  <2>2. CASE j # i
    <3>1. PICK k \in RequiredBy(i) : j \in Closure(k)
      BY <1>3, <2>2, ClosureSplit
    <3> QED
      BY <1>1, <3>1 DEF Settled
  <2> QED
    BY <2>1, <2>2
<1> QED
  BY <1>3 DEF Settled

-----------------------------------------------------------------------------
(***************************************************************************)
(* What the steps do to the stack: n is the innermost call after the step, *)
(* and the others are left alone.                                          *)
(***************************************************************************)

Below(n) == \A m \in 1 .. n - 1 : calls'[m] = calls[m]

\* The call n comes to another of its steps, with `list` for its list.
Advances(n, list) ==
  /\ Len(calls) = n /\ Len(calls') = n /\ Below(n)
  /\ calls'[n].image = calls[n].image /\ calls'[n].labels = calls[n].labels
  /\ calls'[n].at = calls[n].at /\ calls'[n].images = list
  /\ calls[n].step # "dependencies"
  /\ calls[n].step = "fetch" => calls[n].labels = "complete"
  /\ calls'[n].step # "fetch"

Moves(n) == Advances(n, calls[n].images) /\ calls'[n].step # "dependencies"

Appends(n) ==
  /\ Advances(n, Append(calls[n].images, calls[n].image))
  /\ calls[n].step # "fetch" /\ calls'[n].step = "dependencies"

Asks(n) ==
  LET caller == calls[n - 1]
      d == requires[caller.image][caller.at]
  IN  /\ n > 1 /\ Len(calls) = n - 1 /\ Len(calls') = n /\ Below(n)
      /\ withDeps /\ caller.step = "dependencies" /\ caller.at <= Len(requires[caller.image])
      /\ calls'[n].image = d.image /\ calls'[n].labels = d.labels
      /\ calls'[n].images = caller.images
      /\ calls'[n].at = 1 /\ calls'[n].step = "fetch"

Answers(n) ==
  /\ Len(calls) = n + 1 /\ Len(calls') = n /\ Below(n)
  /\ calls[n + 1].step = "dependencies"
  /\ withDeps => calls[n + 1].at > Len(requires[calls[n + 1].image])
  /\ calls'[n].image = calls[n].image /\ calls'[n].labels = calls[n].labels
  /\ calls'[n].step = calls[n].step
  /\ calls'[n].at = calls[n].at + 1
  /\ calls'[n].images = calls[n].images \o calls[n + 1].images

Moved(n) == Moves(n) \/ Appends(n) \/ Asks(n) \/ Answers(n)

\* The fields of a call that is changed.
LEMMA FieldsChanged ==
  ASSUME NEW call \in Call, NEW list, NEW at, NEW step
  PROVE  /\ [call EXCEPT !.step = step].image = call.image
         /\ [call EXCEPT !.step = step].labels = call.labels
         /\ [call EXCEPT !.step = step].images = call.images
         /\ [call EXCEPT !.step = step].at = call.at
         /\ [call EXCEPT !.step = step].step = step
         /\ [call EXCEPT !.step = step, !.images = list].image = call.image
         /\ [call EXCEPT !.step = step, !.images = list].labels = call.labels
         /\ [call EXCEPT !.step = step, !.images = list].images = list
         /\ [call EXCEPT !.step = step, !.images = list].at = call.at
         /\ [call EXCEPT !.step = step, !.images = list].step = step
         /\ [call EXCEPT !.at = at, !.images = list].image = call.image
         /\ [call EXCEPT !.at = at, !.images = list].labels = call.labels
         /\ [call EXCEPT !.at = at, !.images = list].images = list
         /\ [call EXCEPT !.at = at, !.images = list].at = at
         /\ [call EXCEPT !.at = at, !.images = list].step = call.step
  BY DEF Call

LEMMA GotoMoves ==
  ASSUME Typing, outcome = "calling", NEW step \in {"validate_structure", "get_validated_image"},
         Top.step # "dependencies", Top.step = "fetch" => Top.labels = "complete", Goto(step)
  PROVE  \E n \in Nat \ {0} : Moves(n)
<1> DEFINE call == [Top EXCEPT !.step = step]
<1>1. PICK n \in Nat \ {0} : n = Len(calls)
  BY TopType
<1>2. Top \in Call /\ Top = calls[n]
  BY <1>1, TopType DEF Top
<1>3. call \in Call /\ Becomes(call)
  BY <1>2, CallFields, CallChanged DEF Steps, Goto
<1>4. /\ call.image = Top.image /\ call.labels = Top.labels /\ call.images = Top.images
      /\ call.at = Top.at /\ call.step = step
  BY <1>2, FieldsChanged
<1> HIDE DEF call
<1>5. Len(calls') = n /\ calls'[n] = call /\ Below(n)
  BY <1>1, <1>3, ReplaceTop DEF Typing, TypeOK, Below
<1>6. Moves(n)
  BY <1>1, <1>2, <1>4, <1>5 DEF Moves, Advances
<1> QED
  BY <1>6

LEMMA AppendAppends ==
  ASSUME Typing, GetValidatedImage, ~Fails
  PROVE  \E n \in Nat \ {0} : Appends(n)
<1> DEFINE list == Append(Top.images, Top.image)
           call == [Top EXCEPT !.step = "dependencies", !.images = list]
<1>1. outcome = "calling" /\ Top.step = "get_validated_image" /\ Becomes(call)
  BY DEF GetValidatedImage, At
<1>2. PICK n \in Nat \ {0} : n = Len(calls)
  BY <1>1, TopType
<1>3. Top \in Call /\ Top = calls[n]
  BY <1>1, <1>2, TopType DEF Top
<1>4. list \in Seq(Images)
  BY <1>3, CallFields, ElementsAppend
<1> HIDE DEF list
<1>5. call \in Call
  BY <1>3, <1>4, CallFields, CallChanged DEF Steps
<1>6. /\ call.image = Top.image /\ call.labels = Top.labels /\ call.images = list
      /\ call.at = Top.at /\ call.step = "dependencies"
  BY <1>3, FieldsChanged
<1> HIDE DEF call
<1>7. Len(calls') = n /\ calls'[n] = call /\ Below(n)
  BY <1>1, <1>2, <1>5, ReplaceTop DEF Typing, TypeOK, Below
<1>8. Appends(n)
  BY <1>1, <1>2, <1>3, <1>6, <1>7 DEF Appends, Advances, list
<1> QED
  BY <1>8

LEMMA RequireAsks ==
  ASSUME Typing, Require
  PROVE  \E n \in Nat \ {0} : Asks(n)
<1> DEFINE call == NewCall(Required[Top.at], Top.images)
<1>1. /\ outcome = "calling" /\ Top.step = "dependencies" /\ Top.at <= Len(Required)
      /\ calls' = Append(calls, call)
  BY DEF Require, At
<1>2. PICK n \in Nat \ {0} : n = Len(calls)
  BY <1>1, TopType
<1>3. Top \in Call /\ Top = calls[n]
  BY <1>1, <1>2, TopType DEF Top
<1>4. Top.at \in Nat \ {0} /\ Top.images \in Seq(Images) /\ Required \in Seq(Dependency)
  BY <1>1, <1>3, RequiredType, CallFields
<1>5. withDeps /\ Required = requires[Top.image]
  BY <1>1, <1>4 DEF Required
<1>6. call \in Call
  BY <1>1, <1>4, NewCallType
<1>7. /\ call.image = Required[Top.at].image /\ call.labels = Required[Top.at].labels
      /\ call.images = Top.images /\ call.at = 1 /\ call.step = "fetch"
  BY DEF NewCall
<1> HIDE DEF call
<1>8. PICK k \in Nat \ {0} : k = n + 1 /\ k > 1 /\ k - 1 = n
  OBVIOUS
<1>9. /\ Len(calls') = k /\ calls'[k] = call /\ Below(k)
  BY <1>1, <1>2, <1>6, <1>8 DEF Typing, TypeOK, Below
<1>10. Asks(k)
  BY <1>1, <1>2, <1>3, <1>5, <1>7, <1>8, <1>9 DEF Asks
<1> QED
  BY <1>10

LEMMA ReturnAnswers ==
  ASSUME Typing, Return
  PROVE  \E n \in Nat \ {0} : Answers(n)
<1>1. PICK n \in Nat \ {0} : n = Len(calls) - 1
  BY TopType DEF Return, At, Resume
<1> DEFINE list == calls[n].images \o Top.images
           at == calls[n].at + 1
           call == [calls[n] EXCEPT !.at = at, !.images = list]
<1>2. /\ outcome = "calling" /\ Top.step = "dependencies" /\ Top.at > Len(Required)
      /\ calls' = [SubSeq(calls, 1, n) EXCEPT ![n] = call]
  BY <1>1 DEF Return, At, Resume, Caller
<1>3. /\ calls \in Seq(Call) /\ Len(calls) = n + 1 /\ Top \in Call
  BY <1>1, <1>2, TopType DEF Typing, TypeOK
<1>4. calls[n] \in Call /\ Top = calls[n + 1]
  BY <1>3 DEF Top
<1>5. list \in Seq(Images) /\ at \in Nat \ {0}
  BY <1>3, <1>4, CallFields, ElementsConcat
<1> HIDE DEF list, at
<1>6. call \in Call
  BY <1>4, <1>5, CallFields, CallChanged
<1>7. /\ call.image = calls[n].image /\ call.labels = calls[n].labels /\ call.images = list
      /\ call.at = at /\ call.step = calls[n].step
  BY <1>4, FieldsChanged
<1> HIDE DEF call
<1>8. Len(calls') = n /\ calls'[n] = call /\ Below(n)
  BY <1>2, <1>3, <1>6, ReplaceLast DEF Below
<1>9. withDeps => Top.at > Len(requires[Top.image])
  BY <1>2 DEF Required
<1>10. Answers(n)
  BY <1>2, <1>3, <1>4, <1>7, <1>8, <1>9 DEF Answers, list, at
<1> QED
  BY <1>10

\* All steps: the stack is emptied, left alone or changed at its end.
LEMMA StackStep ==
  ASSUME Typing, [Next]_vars
  PROVE  /\ requires' = requires /\ withDeps' = withDeps
         /\ \/ Len(calls') = 0
            \/ UNCHANGED vars
            \/ (\E n \in Nat \ {0} : Moved(n)) /\ outcome' = outcome /\ outcome = "calling"
<1>0. requires' = requires /\ withDeps' = withDeps
  BY Zenon DEF Next, Step, Fetch, FetchFails, ValidateStructure, GetValidatedImage, Require,
     Overflow, Exhausts, Stalls, Return, ReturnLast, Fails, Ends, Over, world, vars
<1>1. CASE Fails \/ Overflow \/ Exhausts \/ Stalls \/ ReturnLast
  BY <1>0, <1>1 DEF Fails, Ends, Overflow, Exhausts, Stalls, ReturnLast
<1>2. CASE Fetch
  BY <1>0, <1>2, GotoMoves DEF Fetch, At, Moved
<1>3. CASE ValidateStructure /\ ~Fails
  BY <1>0, <1>3, GotoMoves DEF ValidateStructure, At, Moved
<1>4. CASE GetValidatedImage /\ ~Fails
  <2>1. outcome' = outcome /\ outcome = "calling"
    BY <1>4 DEF GetValidatedImage, At
  <2> QED
    BY <1>0, <1>4, <2>1, AppendAppends DEF Moved
<1>5. CASE Require
  BY <1>0, <1>5, RequireAsks DEF Require, At, Moved
<1>6. CASE Return
  BY <1>0, <1>6, ReturnAnswers DEF Return, At, Resume, Moved
<1>7. CASE UNCHANGED vars
  BY <1>0, <1>7
<1> QED
  BY <1>1, <1>2, <1>3, <1>4, <1>5, <1>6, <1>7 DEF Next, Step, FetchFails, Over

-----------------------------------------------------------------------------
(***************************************************************************)
(* The chain of calls.                                                     *)
(***************************************************************************)

\* The catalog and the choice of the command line do not change.
Fixed == requires' = requires /\ withDeps' = withDeps

LEMMA NeedsFixed ==
  ASSUME Fixed
  PROVE  /\ \A i \in Images : Closure(i)' = Closure(i)
         /\ \A i \in Images : RequiredBy(i)' = RequiredBy(i)
         /\ Wanted' = Wanted
<1>1. \A i \in Images : RequiredBy(i)' = RequiredBy(i)
  BY DEF Fixed, RequiredBy
<1>2. \A i \in Images : Closure(i)' = Closure(i)
  BY <1>1 DEF Closure
<1>3. Wanted' = Wanted
  BY <1>2 DEF Wanted, Fixed
<1> QED
  BY <1>1, <1>2, <1>3

\* The last part of ChainInv.
ChainLinks(n) ==
  \A m \in 1 .. n - 1 : \E j \in RequiredBy(calls[m].image) : calls[n].image \in Closure(j)

LEMMA StackType ==
  ASSUME Typing, NEW n \in 1 .. Len(calls)
  PROVE  /\ calls[n] \in Call /\ calls[n].image \in Images /\ calls[n].images \in Seq(Images)
         /\ calls[n].at \in Nat \ {0}
<1>1. calls[n] \in Call
  BY DEF Typing, TypeOK
<1> QED
  BY <1>1, CallFields

LEMMA WantedClosed ==
  ASSUME requires \in Catalogs
  PROVE  Wanted \subseteq Images /\ (withDeps => \A i \in Wanted : RequiredBy(i) \subseteq Wanted)
  BY ClosureClosed DEF Wanted

\* The links survive as long as the images of the calls are the same.
LEMMA LinksSame ==
  ASSUME Typing, Fixed, NEW n \in Nat \ {0}, ChainLinks(n), n <= Len(calls),
         \A m \in 1 .. n : calls'[m].image = calls[m].image
  PROVE  ChainLinks(n)'
<1> SUFFICES ASSUME NEW m \in 1 .. n - 1
             PROVE  \E j \in RequiredBy(calls[m].image)' : calls'[n].image \in Closure(j)'
  BY DEF ChainLinks
<1>1. PICK j \in RequiredBy(calls[m].image) : calls[n].image \in Closure(j)
  BY DEF ChainLinks
<1>2. m \in 1 .. Len(calls) /\ calls[m].image \in Images
  BY StackType
<1>3. j \in Images
  BY <1>1, <1>2, RequiredIndex DEF Typing, TypeOK
<1>4. Closure(j)' = Closure(j)
  BY <1>3, NeedsFixed
<1>5. RequiredBy(calls[m].image)' = RequiredBy(calls[m].image)
  <2>1. calls'[m].image = calls[m].image
    OBVIOUS
  <2> QED
    BY <2>1, NeedsFixed DEF RequiredBy, Fixed
<1>6. calls'[n].image = calls[n].image
  OBVIOUS
<1> QED
  BY <1>1, <1>4, <1>5, <1>6

LEMMA ChainSame ==
  ASSUME Typing, Fixed, NEW n \in Nat \ {0}, ChainInv(n), n <= Len(calls),
         \A m \in 1 .. n : calls'[m] = calls[m]
  PROVE  ChainInv(n)'
<1>1. ChainLinks(n)'
  BY LinksSame DEF ChainInv, ChainLinks
<1>2. calls'[n] = calls[n] /\ (n > 1 => calls'[n - 1] = calls[n - 1])
  OBVIOUS
<1>3. Wanted' = Wanted
  BY NeedsFixed
<1> QED
  BY <1>1, <1>2, <1>3 DEF ChainInv, ChainLinks, Fixed, Elements

LEMMA ChainMoves ==
  ASSUME Typing, Fixed, NEW n \in Nat \ {0}, ChainInv(n), Moves(n) \/ Appends(n)
  PROVE  ChainInv(n)'
<1>0. n \in 1 .. Len(calls) /\ Len(calls) = n
  BY DEF Moves, Appends, Advances
<1>1. PICK list : Advances(n, list) /\ Elements(calls[n].images) \subseteq Elements(list)
                  /\ Elements(list) \subseteq Elements(calls[n].images) \cup {calls[n].image}
                  /\ (calls[n].step = "fetch" => calls'[n].step # "dependencies")
  <2>1. CASE Moves(n)
    BY <2>1 DEF Moves
  <2>2. CASE Appends(n)
    BY <1>0, <2>2, StackType, ElementsAppend DEF Appends
  <2> QED
    BY <2>1, <2>2
<1>2. ChainLinks(n)'
  <2>1. \A m \in 1 .. n : calls'[m].image = calls[m].image
    BY <1>0, <1>1 DEF Advances, Below
  <2> QED
    BY <1>0, <2>1, LinksSame DEF ChainInv, ChainLinks
<1>3. Wanted' = Wanted
  BY NeedsFixed
<1>4. /\ calls'[n].image \in Wanted' /\ Elements(calls'[n].images) \subseteq Wanted'
      /\ n = 1 => calls'[n].image = Root
      /\ calls'[n].step # "fetch" => calls'[n].labels = "complete"
      /\ calls'[n].step # "dependencies" => calls'[n].at = 1
  BY <1>1, <1>3 DEF ChainInv, Advances
<1>5. ASSUME n > 1
      PROVE  LET caller == calls'[n - 1]
                 d == requires'[caller.image][caller.at]
             IN  /\ withDeps' /\ caller.at <= Len(requires'[caller.image])
                 /\ calls'[n].image = d.image /\ calls'[n].labels = d.labels
                 /\ Elements(caller.images) \subseteq Elements(calls'[n].images)
  <2>1. calls'[n - 1] = calls[n - 1]
    BY <1>1, <1>5 DEF Advances, Below
  <2> QED
    BY <1>1, <1>5, <2>1 DEF ChainInv, Advances, Fixed
<1> QED
  BY <1>2, <1>4, <1>5 DEF ChainInv, ChainLinks, Elements

LEMMA ChainAsks ==
  ASSUME Typing, Fixed, NEW n \in Nat \ {0}, \A m \in 1 .. Len(calls) : ChainInv(m), Asks(n)
  PROVE  ChainInv(n)'
<1> DEFINE caller == calls[n - 1]
<1>0. /\ n > 1 /\ n - 1 \in 1 .. Len(calls) /\ withDeps /\ calls'[n - 1] = caller
      /\ caller.at <= Len(requires[caller.image])
      /\ calls'[n].image = requires[caller.image][caller.at].image
      /\ calls'[n].labels = requires[caller.image][caller.at].labels
      /\ calls'[n].images = caller.images /\ calls'[n].at = 1 /\ calls'[n].step = "fetch"
  BY DEF Asks, Below
<1>1. caller.image \in Images /\ caller.at \in 1 .. Len(requires[caller.image])
  BY <1>0, StackType, CatalogType DEF Typing, TypeOK
<1>2. calls'[n].image \in RequiredBy(caller.image) /\ calls'[n].image \in Images
  BY <1>0, <1>1, RequiredImages DEF Typing, TypeOK
<1>3. calls'[n].image \in Wanted /\ Elements(calls'[n].images) \subseteq Wanted /\ Wanted' = Wanted
  <2>1. ChainInv(n - 1)
    BY <1>0
  <2>2. caller.image \in Wanted /\ Elements(caller.images) \subseteq Wanted
    BY <2>1 DEF ChainInv
  <2> QED
    BY <1>0, <1>2, <2>2, WantedClosed, NeedsFixed DEF Typing, TypeOK
<1>4. ASSUME NEW m \in 1 .. n - 1
      PROVE  \E j \in RequiredBy(calls[m].image)' : calls'[n].image \in Closure(j)'
  <2>1. m \in 1 .. Len(calls) /\ calls'[m] = calls[m] /\ calls[m].image \in Images
    BY <1>0, StackType DEF Asks, Below
  <2>2. RequiredBy(calls[m].image)' = RequiredBy(calls[m].image)
    BY <2>1 DEF RequiredBy, Fixed
  <2>3. PICK j \in RequiredBy(calls[m].image) : calls'[n].image \in Closure(j)
    <3>1. CASE m = n - 1
      BY <1>2, <3>1, ClosureClosed DEF Typing, TypeOK
    <3>2. CASE m # n - 1
      <4>1. m \in 1 .. (n - 1) - 1 /\ ChainInv(n - 1)
        BY <1>0, <3>2
      <4>2. PICK j \in RequiredBy(calls[m].image) : caller.image \in Closure(j)
        BY <4>1 DEF ChainInv
      <4>3. j \in Images
        BY <2>1, RequiredIndex DEF Typing, TypeOK
      <4> QED
        BY <1>2, <4>2, <4>3, ClosureClosed DEF Typing, TypeOK
    <3> QED
      BY <3>1, <3>2
  <2>4. j \in Images
    BY <2>1, <2>3, RequiredIndex DEF Typing, TypeOK
  <2>5. Closure(j)' = Closure(j)
    BY <2>4, NeedsFixed
  <2> QED
    BY <2>2, <2>3, <2>5
<1>5. ChainLinks(n)'
  BY <1>4 DEF ChainLinks
<1> HIDE DEF caller
<1>6. /\ calls'[n].image \in Wanted' /\ Elements(calls'[n].images) \subseteq Wanted'
      /\ n # 1 /\ calls'[n].at = 1 /\ calls'[n].step = "fetch"
  BY <1>0, <1>3
<1>7. LET c == calls'[n - 1]
          d == requires'[c.image][c.at]
      IN  /\ withDeps' /\ c.at <= Len(requires'[c.image])
          /\ calls'[n].image = d.image /\ calls'[n].labels = d.labels
          /\ Elements(c.images) \subseteq Elements(calls'[n].images)
  BY <1>0 DEF Fixed
<1> QED
  BY <1>5, <1>6, <1>7 DEF ChainInv, ChainLinks, Elements

LEMMA ChainAnswers ==
  ASSUME Typing, CallsInv, Fixed, NEW n \in Nat \ {0},
         \A m \in 1 .. Len(calls) : ChainInv(m), Answers(n)
  PROVE  ChainInv(n)'
<1>0. n \in 1 .. Len(calls) /\ n + 1 \in 1 .. Len(calls) /\ n < Len(calls)
  BY DEF Answers
<1>1. ChainInv(n) /\ calls[n].step = "dependencies"
  BY <1>0 DEF CallsInv, CallInv
<1>2. PICK last \in 1 .. Len(calls) : last = n + 1 /\ ChainInv(last)
  BY <1>0
<1>3. Elements(calls'[n].images) = Elements(calls[n].images) \cup Elements(calls[last].images)
  BY <1>0, <1>2, StackType, ElementsConcat DEF Answers
<1>4. /\ calls'[n].image = calls[n].image /\ calls'[n].labels = calls[n].labels
      /\ calls'[n].step = "dependencies"
  BY <1>1 DEF Answers
<1>5. ChainLinks(n)'
  <2>1. \A m \in 1 .. n : calls'[m].image = calls[m].image
    BY <1>4 DEF Answers, Below
  <2>2. ChainLinks(n) /\ n <= Len(calls)
    BY <1>0, <1>1 DEF ChainInv, ChainLinks
  <2> QED
    BY <2>1, <2>2, LinksSame
<1>6. Wanted' = Wanted
  BY NeedsFixed
<1>7. /\ calls'[n].image \in Wanted' /\ Elements(calls'[n].images) \subseteq Wanted'
      /\ n = 1 => calls'[n].image = Root
      /\ calls'[n].labels = "complete"
  BY <1>1, <1>2, <1>3, <1>4, <1>6 DEF ChainInv
<1>8. ASSUME n > 1
      PROVE  LET caller == calls'[n - 1]
                 d == requires'[caller.image][caller.at]
             IN  /\ withDeps' /\ caller.at <= Len(requires'[caller.image])
                 /\ calls'[n].image = d.image /\ calls'[n].labels = d.labels
                 /\ Elements(caller.images) \subseteq Elements(calls'[n].images)
  <2>1. calls'[n - 1] = calls[n - 1]
    BY <1>8 DEF Answers, Below
  <2> QED
    BY <1>1, <1>3, <1>4, <1>8, <2>1 DEF ChainInv, Fixed
<1> QED
  BY <1>4, <1>5, <1>7, <1>8 DEF ChainInv, ChainLinks, Elements

-----------------------------------------------------------------------------
(***************************************************************************)
(* What is settled.                                                        *)
(***************************************************************************)

LEMMA SettledStays ==
  ASSUME Fixed, requires \in Catalogs, NEW i \in Images, NEW s, NEW t,
         Settled(i, s), Elements(s) \subseteq Elements(t)
  PROVE  Settled(i, t)'
<1>1. Closure(i)' = Closure(i) /\ Closure(i) \subseteq Images
  BY NeedsFixed, ClosureClosed
<1>2. ASSUME NEW j \in Closure(i) PROVE ~InCycle(j)'
  <2>1. ~InCycle(j) /\ j \in Images
    BY <1>1 DEF Settled
  <2>2. SUFFICES ASSUME NEW k \in RequiredBy(j)', j \in Closure(k)' PROVE FALSE
    BY DEF InCycle
  <2>3. k \in RequiredBy(j) /\ k \in Images
    BY <2>1, NeedsFixed, RequiredIndex
  <2> QED
    BY <2>1, <2>2, <2>3, NeedsFixed DEF InCycle
<1>3. \A j \in Closure(i) : \A d \in Elements(requires'[j]) : d.labels = "complete"
  BY DEF Settled, Fixed
<1>4. Closure(i)' \subseteq Elements(t)
  BY <1>1 DEF Settled
<1> QED
  BY <1>1, <1>2, <1>3, <1>4 DEF Settled, Elements

UnderWay(i, n) == \E m \in 1 .. n : calls[m].image = i /\ calls[m].step = "dependencies"

LEMMA ElementsImages ==
  ASSUME NEW s \in Seq(Images)
  PROVE  Elements(s) \subseteq Images
  BY DEF Elements

\* For a list of the new stack: what was settled in one that it contains.
LEMMA SettledLater ==
  ASSUME Typing, Fixed, NEW i \in Images, NEW s, NEW n, Settled(i, s),
         Elements(s) \subseteq Elements(calls'[n].images)
  PROVE  Settled(i, calls[n].images)'
<1>1. PICK t : t = calls'[n].images
  OBVIOUS
<1>2. Settled(i, t)'
  BY <1>1, SettledStays DEF Typing, TypeOK
<1> QED
  BY <1>1, <1>2 DEF Settled

LEMMA SettledSame ==
  ASSUME Typing, Fixed, NEW n \in 1 .. Len(calls), SettledInv(n),
         \A m \in 1 .. n : calls'[m] = calls[m]
  PROVE  SettledInv(n)'
<1>1. calls'[n] = calls[n] /\ Elements(calls[n].images) \subseteq Images
  BY StackType, ElementsImages
<1>2. ASSUME NEW i \in Elements(calls'[n].images)
      PROVE  UnderWay(i, n)' \/ Settled(i, calls[n].images)'
  <2>1. i \in Elements(calls[n].images) /\ i \in Images
    BY <1>1
  <2>2. CASE UnderWay(i, n)
    BY <2>2 DEF UnderWay
  <2>3. CASE Settled(i, calls[n].images)
    BY <1>1, <2>1, <2>3, SettledLater
  <2> QED
    BY <2>1, <2>2, <2>3 DEF SettledInv, UnderWay
<1>3. ASSUME NEW k \in 1 .. Len(requires'[calls'[n].image]), k < calls'[n].at
      PROVE  /\ requires'[calls'[n].image][k].labels = "complete"
             /\ Settled(requires[calls[n].image][k].image, calls[n].images)'
  <2>1. PICK d : d = requires[calls[n].image][k]
    OBVIOUS
  <2>2. d.labels = "complete" /\ Settled(d.image, calls[n].images) /\ d.image \in Images
    BY <1>1, <1>3, <2>1, StackType, RequiredImages DEF SettledInv, Fixed, Typing, TypeOK
  <2>3. Settled(d.image, calls[n].images)'
    BY <1>1, <2>2, SettledLater
  <2>4. requires'[calls'[n].image][k] = d
    BY <1>1, <2>1 DEF Fixed
  <2> QED
    BY <2>2, <2>3, <2>4
<1>4. calls'[n].step = "dependencies" => calls'[n].image \in Elements(calls'[n].images)
  BY <1>1 DEF SettledInv
<1>5. (\A i \in Elements(calls[n].images) : UnderWay(i, n) \/ Settled(i, calls[n].images))'
  BY <1>2 DEF Elements
<1>6. (\A k \in 1 .. Len(requires[calls[n].image]) : k < calls[n].at =>
           /\ requires[calls[n].image][k].labels = "complete"
           /\ Settled(requires[calls[n].image][k].image, calls[n].images))'
  BY <1>3
<1> QED
  BY <1>4, <1>5, <1>6 DEF SettledInv, UnderWay, Elements

LEMMA SettledMoves ==
  ASSUME Typing, Fixed, NEW n \in Nat \ {0}, ChainInv(n), SettledInv(n), Moves(n) \/ Appends(n)
  PROVE  SettledInv(n)'
<1>0. n \in 1 .. Len(calls) /\ Len(calls) = n
  BY DEF Moves, Appends, Advances
<1>1. PICK list : /\ Advances(n, list) /\ Elements(calls[n].images) \subseteq Elements(list)
                  /\ \A i \in Elements(list) :
                       i \in Elements(calls[n].images)
                       \/ (i = calls[n].image /\ calls'[n].step = "dependencies")
                  /\ calls'[n].step = "dependencies" => calls[n].image \in Elements(list)
  <2>1. CASE Moves(n)
    BY <2>1 DEF Moves
  <2>2. CASE Appends(n)
    BY <1>0, <2>2, StackType, ElementsAppend DEF Appends
  <2> QED
    BY <2>1, <2>2
<1>2. calls'[n].images = list /\ calls'[n].at = 1 /\ calls'[n].image = calls[n].image
  BY <1>1 DEF ChainInv, Advances
<1>3. ASSUME NEW i \in Elements(calls'[n].images)
      PROVE  UnderWay(i, n)' \/ Settled(i, calls[n].images)'
  <2>1. CASE i = calls[n].image /\ calls'[n].step = "dependencies"
    BY <1>0, <1>2, <2>1 DEF UnderWay
  <2>2. CASE i \in Elements(calls[n].images) /\ Settled(i, calls[n].images)
    <3>1. i \in Images
      BY <1>0, <2>2, StackType, ElementsImages
    <3> QED
      BY <1>1, <1>2, <2>2, <3>1, SettledLater
  <2>3. CASE UnderWay(i, n)
    <3>1. PICK m \in 1 .. n : calls[m].image = i /\ calls[m].step = "dependencies"
      BY <2>3 DEF UnderWay
    <3>2. m \in 1 .. n - 1
      BY <1>1, <3>1 DEF Advances
    <3>3. calls'[m] = calls[m]
      BY <1>1, <3>2 DEF Advances, Below
    <3> QED
      BY <3>1, <3>3 DEF UnderWay
  <2> QED
    BY <1>1, <1>2, <1>3, <2>1, <2>2, <2>3 DEF SettledInv, UnderWay
<1>4. calls'[n].step = "dependencies" => calls'[n].image \in Elements(calls'[n].images)
  BY <1>1, <1>2
<1>5. (\A i \in Elements(calls[n].images) : UnderWay(i, n) \/ Settled(i, calls[n].images))'
  BY <1>3 DEF Elements
<1>6. (\A k \in 1 .. Len(requires[calls[n].image]) : ~(k < calls[n].at))'
  BY <1>2
<1> QED
  BY <1>4, <1>5, <1>6 DEF SettledInv, UnderWay, Elements

LEMMA SettledAsks ==
  ASSUME Typing, Fixed, NEW n \in Nat \ {0}, \A m \in 1 .. Len(calls) : SettledInv(m), Asks(n)
  PROVE  SettledInv(n)'
<1>0. PICK l \in 1 .. Len(calls) : l = n - 1
  BY DEF Asks
<1>1. /\ calls'[n].images = calls[l].images /\ calls'[n].at = 1 /\ calls'[n].step = "fetch"
  BY <1>0 DEF Asks
<1>2. SettledInv(l) /\ Elements(calls[l].images) \subseteq Images
  BY StackType, ElementsImages
<1>3. ASSUME NEW i \in Elements(calls'[n].images)
      PROVE  UnderWay(i, n)' \/ Settled(i, calls[n].images)'
  <2>1. i \in Elements(calls[l].images) /\ i \in Images
    BY <1>1, <1>2
  <2>2. CASE UnderWay(i, l)
    <3>1. PICK m \in 1 .. l : calls[m].image = i /\ calls[m].step = "dependencies"
      BY <2>2 DEF UnderWay
    <3>2. m \in 1 .. n - 1 /\ m \in 1 .. n
      BY <1>0
    <3>3. calls'[m] = calls[m]
      BY <3>2 DEF Asks, Below
    <3> QED
      BY <3>1, <3>2, <3>3 DEF UnderWay
  <2>3. CASE Settled(i, calls[l].images)
    BY <1>1, <2>1, <2>3, SettledLater
  <2> QED
    BY <1>2, <2>1, <2>2, <2>3 DEF SettledInv, UnderWay
<1>5. (\A i \in Elements(calls[n].images) : UnderWay(i, n) \/ Settled(i, calls[n].images))'
  BY <1>3 DEF Elements
<1>6. (\A k \in 1 .. Len(requires[calls[n].image]) : ~(k < calls[n].at))'
  BY <1>1
<1> QED
  BY <1>1, <1>5, <1>6 DEF SettledInv, UnderWay, Elements

\* The call that returns has settled its image in its list.
LEMMA SettledReturned ==
  ASSUME Typing, withDeps, NEW n \in 1 .. Len(calls), SettledInv(n),
         calls[n].step = "dependencies", calls[n].at > Len(requires[calls[n].image])
  PROVE  Settled(calls[n].image, calls[n].images)
<1>1. calls[n].image \in Images /\ calls[n].at \in Nat
  BY StackType
<1>2. requires[calls[n].image] \in Seq(Dependency)
  BY <1>1, CatalogType DEF Typing, TypeOK
<1>3. ASSUME NEW k \in 1 .. Len(requires[calls[n].image])
      PROVE  /\ requires[calls[n].image][k].labels = "complete"
             /\ Settled(requires[calls[n].image][k].image, calls[n].images)
  BY <1>1, <1>2 DEF SettledInv
<1>4. \A d \in Elements(requires[calls[n].image]) :
        d.labels = "complete" /\ Settled(d.image, calls[n].images)
  BY <1>3 DEF Elements
<1>5. calls[n].image \in Elements(calls[n].images)
  BY DEF SettledInv
<1> QED
  BY <1>1, <1>4, <1>5, SettledByAll DEF Typing, TypeOK

LEMMA SettledAnswers ==
  ASSUME Typing, CallsInv, Fixed, withDeps, NEW n \in Nat \ {0}, Answers(n),
         \A m \in 1 .. Len(calls) : ChainInv(m) /\ SettledInv(m)
  PROVE  SettledInv(n)'
<1>0. n \in 1 .. Len(calls) /\ n < Len(calls)
  BY DEF Answers
<1>1. PICK last \in 1 .. Len(calls) : last = n + 1 /\ last = Len(calls)
  BY DEF Answers
<1>2. SettledInv(n) /\ SettledInv(last) /\ ChainInv(last) /\ ChainInv(n)
  BY <1>0, <1>1
<1>3. calls[n].step = "dependencies" /\ calls[last].step = "dependencies"
  BY <1>0, <1>1 DEF CallsInv, CallInv, Answers
<1>4. Settled(calls[last].image, calls[last].images)
  BY <1>1, <1>2, <1>3, SettledReturned DEF Answers
<1>5. /\ Elements(calls'[n].images) = Elements(calls[n].images) \cup Elements(calls[last].images)
      /\ calls'[n].image = calls[n].image /\ calls'[n].step = "dependencies"
      /\ calls'[n].at = calls[n].at + 1
      /\ Elements(calls[n].images) \subseteq Images /\ Elements(calls[last].images) \subseteq Images
  BY <1>0, <1>1, <1>3, StackType, ElementsConcat, ElementsImages DEF Answers
<1>6. \A m \in 1 .. n - 1 : calls'[m] = calls[m]
  BY DEF Answers, Below
<1>7. ASSUME NEW i \in Elements(calls'[n].images)
      PROVE  UnderWay(i, n)' \/ Settled(i, calls[n].images)'
  <2>0. i \in Images
    BY <1>5
  <2>1. CASE Settled(i, calls[n].images)
    BY <1>5, <2>0, <2>1, SettledLater
  <2>2. CASE Settled(i, calls[last].images)
    BY <1>5, <2>0, <2>2, SettledLater
  <2>3. CASE UnderWay(i, last) /\ ~Settled(i, calls[last].images)
    <3>1. PICK m \in 1 .. last : calls[m].image = i /\ calls[m].step = "dependencies"
      BY <2>3 DEF UnderWay
    <3>2. m # last
      BY <1>4, <2>3, <3>1
    <3>3. m \in 1 .. n /\ (m # n => m \in 1 .. n - 1)
      BY <1>1, <3>2
    <3>4. calls'[m].image = i /\ calls'[m].step = "dependencies"
      BY <1>5, <1>6, <3>1, <3>3
    <3> QED
      BY <3>3, <3>4 DEF UnderWay
  <2>4. UnderWay(i, n) => UnderWay(i, last)
    BY <1>1 DEF UnderWay
  <2> QED
    BY <1>2, <1>5, <2>1, <2>2, <2>3, <2>4 DEF SettledInv, UnderWay
<1>8. calls[n].image \in Images /\ calls[n].at \in Nat \ {0}
  BY <1>0, StackType
<1>9. ASSUME NEW k \in 1 .. Len(requires'[calls'[n].image]), k < calls'[n].at
      PROVE  /\ requires'[calls'[n].image][k].labels = "complete"
             /\ Settled(requires[calls[n].image][k].image, calls[n].images)'
  <2>0. PICK d : d = requires[calls[n].image][k]
    OBVIOUS
  <2>1. requires'[calls'[n].image][k] = d /\ k \in 1 .. Len(requires[calls[n].image])
    BY <1>5, <1>9, <2>0 DEF Fixed
  <2>2. d.image \in Images
    BY <1>8, <2>0, <2>1, RequiredImages DEF Typing, TypeOK
  <2>3. CASE k < calls[n].at
    <3>1. d.labels = "complete" /\ Settled(d.image, calls[n].images)
      BY <1>2, <2>0, <2>1, <2>3 DEF SettledInv
    <3>2. Settled(d.image, calls[n].images)'
      BY <1>5, <2>2, <3>1, SettledLater
    <3> QED
      BY <2>1, <3>1, <3>2
  <2>4. CASE ~(k < calls[n].at)
    <3>1. k = calls[n].at
      BY <1>5, <1>8, <1>9, <2>1, <2>4
    <3>2. d.image = calls[last].image /\ d.labels = calls[last].labels
      <4>1. last > 1 /\ last - 1 = n
        BY <1>1
      <4> QED
        BY <1>2, <2>0, <3>1, <4>1 DEF ChainInv
    <3>3. d.labels = "complete"
      BY <1>2, <1>3, <3>2 DEF ChainInv
    <3>4. Settled(d.image, calls[n].images)'
      BY <1>4, <1>5, <2>2, <3>2, SettledLater
    <3> QED
      BY <2>1, <3>3, <3>4
  <2> QED
    BY <2>3, <2>4
<1>10. calls'[n].image \in Elements(calls'[n].images)
  BY <1>2, <1>3, <1>5 DEF SettledInv
<1>11. (\A i \in Elements(calls[n].images) : UnderWay(i, n) \/ Settled(i, calls[n].images))'
  BY <1>7 DEF Elements
<1>12. (\A k \in 1 .. Len(requires[calls[n].image]) : k < calls[n].at =>
           /\ requires[calls[n].image][k].labels = "complete"
           /\ Settled(requires[calls[n].image][k].image, calls[n].images))'
  BY <1>9
<1> QED
  BY <1>10, <1>11, <1>12 DEF SettledInv, UnderWay, Elements

-----------------------------------------------------------------------------
(***************************************************************************)
(* What follows what.                                                      *)
(***************************************************************************)

\* When the lists and the calls up to the n-th are the same.
LEMMA FollowsSame ==
  ASSUME Fixed, NEW n \in Nat \ {0}, FollowsInv(n), \A m \in 1 .. n : calls'[m] = calls[m]
  PROVE  FollowsInv(n)'
<1> SUFFICES ASSUME NEW i \in Images, NEW k \in 1 .. Len(requires[i]), Fetched(i, k, n)'
             PROVE  Follows(i, requires[i][k].image, calls'[n].images)
  BY DEF FollowsInv, Follows, Fixed
<1>1. ASSUME NEW m \in 1 .. n, calls[m].image = i, calls[m].step = "dependencies"
      PROVE  k < calls[m].at \/ (k = calls[m].at /\ m < n /\ calls[m + 1].step = "dependencies")
  <2>1. calls'[m] = calls[m]
    OBVIOUS
  <2>2. m < n => calls'[m + 1] = calls[m + 1]
    OBVIOUS
  <2> QED
    BY <1>1, <2>1, <2>2 DEF Fetched
<1>2. Fetched(i, k, n)
  BY <1>1 DEF Fetched
<1> QED
  BY <1>2 DEF FollowsInv

\* When the call n goes on with the list it had: what its own step was does
\* not matter.
LEMMA FollowsMoves ==
  ASSUME CallsInv, Fixed, NEW n \in Nat \ {0}, FollowsInv(n), Moves(n)
  PROVE  FollowsInv(n)'
<1> SUFFICES ASSUME NEW i \in Images, NEW k \in 1 .. Len(requires[i]), Fetched(i, k, n)'
             PROVE  Follows(i, requires[i][k].image, calls'[n].images)
  BY DEF FollowsInv, Follows, Fixed
<1>1. ASSUME NEW m \in 1 .. n, calls[m].image = i, calls[m].step = "dependencies"
      PROVE  k < calls[m].at \/ (k = calls[m].at /\ m < n /\ calls[m + 1].step = "dependencies")
  <2>1. m \in 1 .. n - 1
    BY <1>1 DEF Moves, Advances
  <2>2. calls'[m] = calls[m]
    BY <2>1 DEF Moves, Advances, Below
  <2>3. k < calls[m].at \/ (k = calls[m].at /\ m < n /\ calls'[m + 1].step = "dependencies")
    BY <1>1, <2>2 DEF Fetched
  <2>4. calls'[m + 1].step = "dependencies" => calls[m + 1].step = "dependencies"
    <3>1. CASE m + 1 = n
      BY <3>1 DEF Moves
    <3>2. CASE m + 1 # n
      <4>1. m + 1 \in 1 .. n - 1
        BY <2>1, <3>2
      <4> QED
        BY <4>1 DEF Moves, Advances, Below
    <3> QED
      BY <3>1, <3>2
  <2> QED
    BY <2>3, <2>4
<1>2. Fetched(i, k, n)
  BY <1>1 DEF Fetched
<1>3. Follows(i, requires[i][k].image, calls[n].images)
  BY <1>2 DEF FollowsInv
<1> QED
  BY <1>3 DEF Moves, Advances

\* When it appends its image, that is what the caller's dependency is at, and
\* its own dependencies are all to be fetched.
LEMMA FollowsAppends ==
  ASSUME Typing, CallsInv, Fixed, NEW n \in Nat \ {0}, FollowsInv(n), ChainInv(n), Appends(n)
  PROVE  FollowsInv(n)'
<1> SUFFICES ASSUME NEW i \in Images, NEW k \in 1 .. Len(requires[i]), Fetched(i, k, n)'
             PROVE  Follows(i, requires[i][k].image, calls'[n].images)
  BY DEF FollowsInv, Follows, Fixed
<1> DEFINE d == requires[i][k].image
           t == calls[n].image
<1>0. /\ n \in 1 .. Len(calls) /\ Len(calls) = n /\ t \in Images
      /\ calls[n].images \in Seq(Images) /\ calls[n].step # "dependencies"
      /\ calls'[n].images = Append(calls[n].images, t)
  <2>1. n \in 1 .. Len(calls)
    BY DEF Appends, Advances
  <2> QED
    BY <2>1, StackType DEF Appends, Advances
<1>1. /\ calls'[n].image = t /\ calls'[n].step = "dependencies" /\ calls'[n].at = 1
      /\ \A m \in 1 .. n - 1 : calls'[m] = calls[m]
  BY <1>0 DEF Appends, Advances, Below, ChainInv
<1>2. t # i
  <2> SUFFICES ASSUME t = i PROVE FALSE
    OBVIOUS
  <2>1. k < 1
    BY <1>0, <1>1 DEF Fetched
  <2> QED
    BY <2>1
<1>3. CASE Fetched(i, k, n)
  <2>1. Follows(i, d, calls[n].images)
    BY <1>3 DEF FollowsInv
  <2> QED
    BY <1>0, <1>2, <2>1, FollowsAppend
<1>4. CASE ~Fetched(i, k, n)
  <2>1. PICK m \in 1 .. n :
          /\ calls[m].image = i /\ calls[m].step = "dependencies"
          /\ ~(k < calls[m].at \/ (k = calls[m].at /\ m < n /\ calls[m + 1].step = "dependencies"))
    BY <1>4 DEF Fetched
  <2>2. m \in 1 .. n - 1 /\ m < n
    BY <1>0, <2>1
  <2>3. k = calls[m].at /\ calls[m + 1].step # "dependencies"
    BY <1>1, <2>1, <2>2 DEF Fetched
  <2>4. m + 1 = n
    <3>1. CASE m + 1 \in 1 .. n - 1
      <4>1. m + 1 \in 1 .. Len(calls) /\ m + 1 < Len(calls)
        BY <1>0, <3>1
      <4>2. PICK l \in 1 .. Len(calls) : l = m + 1 /\ l < Len(calls)
        BY <4>1
      <4>3. calls[l].step = "dependencies"
        BY <4>2 DEF CallsInv, CallInv
      <4> QED
        BY <2>3, <4>2, <4>3
    <3> QED
      BY <2>2, <3>1
  <2>5. t = d
    <3>1. n > 1 /\ n - 1 = m
      BY <2>2, <2>4
    <3> QED
      BY <2>1, <2>3, <3>1 DEF ChainInv
  <2> QED
    BY <1>0, <1>2, <2>5, FollowsAppend
<1> QED
  BY <1>3, <1>4

LEMMA FollowsAsks ==
  ASSUME CallsInv, Fixed, NEW n \in Nat \ {0}, \A m \in 1 .. Len(calls) : FollowsInv(m), Asks(n)
  PROVE  FollowsInv(n)'
<1> SUFFICES ASSUME NEW i \in Images, NEW k \in 1 .. Len(requires[i]), Fetched(i, k, n)'
             PROVE  Follows(i, requires[i][k].image, calls'[n].images)
  BY DEF FollowsInv, Follows, Fixed
<1>0. PICK l \in 1 .. Len(calls) : l = n - 1 /\ FollowsInv(l)
  BY DEF Asks
<1>1. ASSUME NEW m \in 1 .. l, calls[m].image = i, calls[m].step = "dependencies"
      PROVE  k < calls[m].at \/ (k = calls[m].at /\ m < l /\ calls[m + 1].step = "dependencies")
  <2>1. calls'[m] = calls[m] /\ m \in 1 .. n
    BY <1>0 DEF Asks, Below
  <2>2. k < calls[m].at \/ (k = calls[m].at /\ m < n /\ calls'[m + 1].step = "dependencies")
    BY <1>1, <2>1 DEF Fetched
  <2>3. CASE m = l
    <3>1. calls'[m + 1].step = "fetch"
      BY <1>0, <2>3 DEF Asks
    <3> QED
      BY <2>2, <3>1
  <2>4. CASE m # l
    <3>1. m + 1 \in 1 .. n - 1 /\ m < l
      BY <1>0, <2>4
    <3>2. calls'[m + 1] = calls[m + 1]
      BY <3>1 DEF Asks, Below
    <3> QED
      BY <2>2, <3>1, <3>2
  <2> QED
    BY <2>3, <2>4
<1>2. Fetched(i, k, l)
  BY <1>1 DEF Fetched
<1>3. Follows(i, requires[i][k].image, calls[l].images)
  BY <1>0, <1>2 DEF FollowsInv
<1> QED
  BY <1>0, <1>3 DEF Asks

\* The list that is returned begins with the caller's, so that the places in
\* it are all followed as those in the returned one are.
LEMMA FollowsAnswers ==
  ASSUME Typing, CallsInv, Fixed, withDeps, NEW n \in Nat \ {0}, Answers(n),
         \A m \in 1 .. Len(calls) : ChainInv(m) /\ FollowsInv(m)
  PROVE  FollowsInv(n)'
<1> SUFFICES ASSUME NEW i \in Images, NEW k \in 1 .. Len(requires[i]), Fetched(i, k, n)'
             PROVE  Follows(i, requires[i][k].image, calls'[n].images)
  BY DEF FollowsInv, Follows, Fixed
<1>0. PICK last \in 1 .. Len(calls) : last = n + 1 /\ last = Len(calls) /\ last > 1 /\ n = last - 1
  BY DEF Answers
<1>1. /\ n \in 1 .. Len(calls) /\ calls[n].at \in Nat \ {0}
      /\ calls[n].images \in Seq(Images) /\ calls[last].images \in Seq(Images)
  <2>1. n \in 1 .. Len(calls)
    BY DEF Answers
  <2> QED
    BY <2>1, StackType
<1>2. /\ calls'[n].images = calls[n].images \o calls[last].images
      /\ calls'[n].image = calls[n].image /\ calls'[n].step = calls[n].step
      /\ calls'[n].at = calls[n].at + 1 /\ calls[last].step = "dependencies"
      /\ calls[last].at > Len(requires[calls[last].image]) /\ calls[last].at \in Nat
      /\ \A m \in 1 .. n - 1 : calls'[m] = calls[m]
  BY <1>0, StackType DEF Answers, Below
<1>3. Elements(calls[n].images) \subseteq Elements(calls[last].images)
  <2>1. ChainInv(last)
    OBVIOUS
  <2> QED
    BY <1>0, <2>1 DEF ChainInv
<1>4. ASSUME NEW m \in 1 .. last, calls[m].image = i, calls[m].step = "dependencies"
      PROVE  k < calls[m].at
             \/ (k = calls[m].at /\ m < last /\ calls[m + 1].step = "dependencies")
  <2>1. CASE m = last
    <3>1. requires[i] \in Seq(Dependency)
      BY CatalogType DEF Typing, TypeOK
    <3> QED
      BY <1>2, <1>4, <2>1, <3>1
  <2>2. CASE m = n
    <3>1. k < calls[n].at + 1
      BY <1>2, <1>4, <2>2 DEF Fetched
    <3>2. m + 1 = last /\ m < last
      BY <1>0, <2>2
    <3> QED
      BY <1>1, <1>2, <2>2, <3>1, <3>2
  <2>3. CASE m \in 1 .. n - 1
    <3>1. calls'[m] = calls[m] /\ m \in 1 .. n /\ m < last
      BY <1>0, <1>2, <2>3
    <3>2. k < calls[m].at \/ (k = calls[m].at /\ m < n /\ calls'[m + 1].step = "dependencies")
      BY <1>4, <3>1 DEF Fetched
    <3>3. calls'[m + 1].step = calls[m + 1].step
      <4>1. m + 1 \in 1 .. n - 1 \/ m + 1 = n
        BY <2>3
      <4> QED
        BY <1>2, <4>1
    <3> QED
      BY <3>1, <3>2, <3>3
  <2>4. m = last \/ m = n \/ m \in 1 .. n - 1
    BY <1>0
  <2> QED
    BY <2>1, <2>2, <2>3, <2>4
<1>5. Fetched(i, k, last)
  BY <1>4 DEF Fetched
<1>6. Follows(i, requires[i][k].image, calls[last].images)
  BY <1>5 DEF FollowsInv
<1> QED
  BY <1>1, <1>2, <1>3, <1>6, FollowsConcat

-----------------------------------------------------------------------------
(***************************************************************************)
(* What is returned, and the way there.                                    *)
(***************************************************************************)

CallsWanted ==
  \A n \in 1 .. Len(calls) : ChainInv(n) /\ (withDeps => SettledInv(n) /\ FollowsInv(n))
Results == FetchedIsWanted /\ FetchedIsSound /\ DependencyOnTop

LEMMA CallsWantedInit == Init => CallsWanted
<1> SUFFICES ASSUME Init PROVE CallsWanted
  OBVIOUS
<1>1. /\ Len(calls) = 1 /\ calls[1].images = <<>> /\ calls[1].image = Root
      /\ calls[1].step = "fetch" /\ calls[1].at = 1
  BY DEF Init, NewCall
<1>2. Elements(<<>>) = {} /\ \A i, j : Follows(i, j, <<>>)
  BY DEF Elements, Follows
<1>3. Root \in Wanted
  BY ClosureClosed DEF Wanted, Init
<1>4. ChainInv(1)
  BY <1>1, <1>2, <1>3 DEF ChainInv
<1>5. SettledInv(1)
  BY <1>1, <1>2 DEF SettledInv
<1>6. FollowsInv(1)
  BY <1>1, <1>2 DEF FollowsInv
<1> QED
  BY <1>1, <1>4, <1>5, <1>6 DEF CallsWanted

LEMMA CallsWantedStep == Typing /\ CallsInv /\ CallsWanted /\ [Next]_vars => CallsWanted'
<1> SUFFICES ASSUME Typing, CallsInv, CallsWanted, [Next]_vars PROVE CallsWanted'
  OBVIOUS
<1>0. Fixed
  BY StackStep DEF Fixed
<1>1. CASE Len(calls') = 0
  BY <1>1 DEF CallsWanted
<1>2. CASE UNCHANGED vars
  <2> SUFFICES ASSUME NEW n \in 1 .. Len(calls)
               PROVE  (ChainInv(n) /\ (withDeps => SettledInv(n) /\ FollowsInv(n)))'
    BY <1>2 DEF CallsWanted, vars
  <2>1. calls' = calls /\ n \in Nat \ {0} /\ n <= Len(calls)
    BY <1>2 DEF vars, Typing, TypeOK
  <2> QED
    BY <1>0, <2>1, ChainSame, SettledSame, FollowsSame DEF CallsWanted, Fixed
<1>3. ASSUME NEW n \in Nat \ {0}, Moved(n) PROVE CallsWanted'
  <2>0. /\ Moves(n) \/ Appends(n) => Len(calls') = n /\ Below(n) /\ n = Len(calls)
        /\ Answers(n) => Len(calls') = n /\ Below(n) /\ n + 1 = Len(calls)
        /\ Asks(n) => Len(calls') = n /\ Below(n) /\ n - 1 = Len(calls)
    <3>1. Moves(n) \/ Appends(n) => Len(calls') = n /\ Below(n) /\ n = Len(calls)
      BY DEF Moves, Appends, Advances
    <3>2. Answers(n) => Len(calls') = n /\ Below(n) /\ n + 1 = Len(calls)
      BY DEF Answers
    <3>3. Asks(n) => Len(calls') = n /\ Below(n) /\ n - 1 = Len(calls)
      BY DEF Asks
    <3> QED
      BY <3>1, <3>2, <3>3
  <2>1. /\ Len(calls') = n /\ Below(n) /\ n - 1 <= Len(calls)
        /\ Moves(n) \/ Appends(n) \/ Answers(n) => n \in 1 .. Len(calls)
    BY <1>3, <2>0 DEF Moved
  <2>2. \A m \in 1 .. Len(calls) : ChainInv(m)
    BY DEF CallsWanted
  <2>3. withDeps => \A m \in 1 .. Len(calls) : SettledInv(m) /\ FollowsInv(m)
    BY DEF CallsWanted
  <2>4. ChainInv(n)'
    BY <1>0, <1>3, <2>1, <2>2, ChainMoves, ChainAsks, ChainAnswers DEF Moved
  <2>5. withDeps => SettledInv(n)'
    BY <1>0, <1>3, <2>1, <2>2, <2>3, SettledMoves, SettledAsks, SettledAnswers DEF Moved
  <2>6. withDeps => FollowsInv(n)'
    BY <1>0, <1>3, <2>1, <2>2, <2>3, FollowsMoves, FollowsAppends, FollowsAsks, FollowsAnswers
    DEF Moved
  <2>7. ASSUME NEW m \in 1 .. n - 1
        PROVE  ChainInv(m)' /\ (withDeps => SettledInv(m)' /\ FollowsInv(m)')
    <3>1. /\ m \in Nat \ {0} /\ m \in 1 .. Len(calls) /\ m <= Len(calls)
          /\ \A l \in 1 .. m : calls'[l] = calls[l]
      BY <2>1 DEF Below, Typing, TypeOK
    <3> QED
      BY <1>0, <2>2, <2>3, <3>1, ChainSame, SettledSame, FollowsSame
  <2>8. \A m \in 1 .. n : m = n \/ m \in 1 .. n - 1
    OBVIOUS
  <2>9. \A m \in 1 .. n : ChainInv(m)' /\ (withDeps' => SettledInv(m)' /\ FollowsInv(m)')
    BY <1>0, <2>4, <2>5, <2>6, <2>7, <2>8 DEF Fixed
  <2> QED
    BY <2>1, <2>9 DEF CallsWanted
<1> QED
  BY <1>1, <1>2, <1>3, StackStep

\* The list of the outermost call when it returns.
LEMMA Finished ==
  ASSUME Typing, CallsInv, CallsWanted, ReturnLast
  PROVE  /\ Top.images \in Seq(Images) /\ Len(Top.images) > 0 /\ Top.images[1] = Root
         /\ Elements(Top.images) = Wanted /\ Wanted \subseteq Valid
         /\ withDeps =>
              /\ Settled(Root, Top.images)
              /\ \A i \in Images : \A k \in 1 .. Len(requires[i]) :
                   Follows(i, requires[i][k].image, Top.images)
<1>1. /\ outcome = "calling" /\ Top.step = "dependencies" /\ Top.at > Len(Required)
      /\ Len(calls) = 1 /\ Top = calls[1] /\ 1 \in 1 .. Len(calls)
  BY DEF ReturnLast, At, Top
<1>2. CallInv(1) /\ ChainInv(1) /\ (withDeps => SettledInv(1) /\ FollowsInv(1))
  BY <1>1 DEF CallsInv, CallsWanted
<1>3. Top.images \in Seq(Images) /\ Top.image = Root
  BY <1>1, <1>2, StackType DEF ChainInv
<1>4. Len(Top.images) > 0 /\ Top.images[1] = Root /\ Elements(Top.images) \subseteq Valid
  <2>1. Len(Top.images) # 0 /\ Sound(Top.images, Valid)
    BY <1>1, <1>2 DEF CallInv
  <2>2. Len(Top.images) > 0
    BY <1>3, <2>1
  <2> QED
    BY <2>1, <2>2 DEF Sound, Elements
<1>5. Elements(Top.images) \subseteq Wanted
  BY <1>1, <1>2 DEF ChainInv
<1>6. CASE withDeps
  <2>1. Top.at > Len(requires[Root])
    BY <1>1, <1>3, <1>6 DEF Required
  <2>2. Settled(Root, Top.images)
    BY <1>1, <1>2, <1>3, <1>6, <2>1, SettledReturned
  <2>3. Elements(Top.images) = Wanted
    BY <1>5, <1>6, <2>2 DEF Settled, Wanted
  <2>4. ASSUME NEW i \in Images, NEW k \in 1 .. Len(requires[i])
        PROVE  Follows(i, requires[i][k].image, Top.images)
    <3>1. i = Root => k < Top.at
      <4>1. Top.at \in Nat /\ requires[i] \in Seq(Dependency)
        BY <1>1, StackType, CatalogType DEF Typing, TypeOK
      <4> QED
        BY <2>1, <4>1
    <3>2. Fetched(i, k, 1)
      BY <1>1, <1>3, <3>1 DEF Fetched
    <3> QED
      BY <1>1, <1>2, <1>6, <3>2 DEF FollowsInv
  <2> QED
    BY <1>3, <1>4, <2>2, <2>3, <2>4
<1>7. CASE ~withDeps
  <2>1. Root \in Elements(Top.images) /\ Wanted = {Root}
    BY <1>3, <1>4, <1>7 DEF Elements, Wanted
  <2> QED
    BY <1>3, <1>4, <1>5, <1>7, <2>1
<1> QED
  BY <1>6, <1>7

LEMMA ResultsInit == Init => Results
  BY DEF Init, Results, FetchedIsWanted, FetchedIsSound, DependencyOnTop

LEMMA ResultsStep == Typing /\ CallsInv /\ CallsWanted /\ Results /\ [Next]_vars => Results'
<1> SUFFICES ASSUME Typing, CallsInv, CallsWanted, Results, [Next]_vars PROVE Results'
  OBVIOUS
<1>1. CASE UNCHANGED vars
  <2>0. /\ Fixed /\ requires \in Catalogs /\ Wanted \subseteq Images
        /\ images' = images /\ outcome' = outcome
    BY <1>1, StackStep, WantedClosed DEF Fixed, Typing, TypeOK, vars
  <2>1. Wanted' = Wanted /\ Valid' = Valid
    BY <1>1, <2>0, NeedsFixed DEF Valid, vars
  <2>2. FetchedIsWanted'
    BY <2>0, <2>1 DEF Results, FetchedIsWanted, Elements
  <2>3. FetchedIsSound'
    <3>1. ASSUME outcome' = "fetched", withDeps', NEW i \in Wanted'
          PROVE  ~InCycle(i)' /\ \A d \in Elements(requires'[i]) : d.labels = "complete"
      <4>1. /\ i \in Images /\ ~InCycle(i)
            /\ \A d \in Elements(requires[i]) : d.labels = "complete"
        BY <2>0, <2>1, <3>1 DEF Results, FetchedIsSound, Fixed
      <4>2. ASSUME NEW j \in RequiredBy(i)', i \in Closure(j)' PROVE FALSE
        <5>1. j \in RequiredBy(i) /\ j \in Images
          BY <2>0, <4>1, <4>2, NeedsFixed, RequiredIndex
        <5>2. i \in Closure(j)
          BY <2>0, <4>2, <5>1, NeedsFixed
        <5> QED
          BY <4>1, <5>1, <5>2 DEF InCycle
      <4> QED
        BY <2>0, <4>1, <4>2 DEF InCycle, Fixed
    <3>2. outcome' = "fetched" => Wanted' \subseteq Valid'
      BY <2>0, <2>1 DEF Results, FetchedIsSound
    <3> QED
      BY <3>1, <3>2 DEF FetchedIsSound, Elements
  <2>4. DependencyOnTop'
    <3>1. ASSUME outcome' = "fetched", withDeps', NEW i \in Wanted', NEW j \in RequiredBy(i)'
          PROVE  Follows(i, j, images')
      <4>1. i \in Images /\ j \in RequiredBy(i) /\ i \in Wanted
        BY <2>0, <2>1, <3>1, NeedsFixed
      <4> QED
        BY <2>0, <3>1, <4>1 DEF Results, DependencyOnTop, Fixed
    <3> QED
      BY <3>1 DEF DependencyOnTop, Follows
  <2> QED
    BY <2>2, <2>3, <2>4 DEF Results
<1>2. CASE outcome' # "fetched"
  BY <1>2 DEF Results, FetchedIsWanted, FetchedIsSound, DependencyOnTop
<1>3. CASE ReturnLast
  <2>0. Fixed /\ requires \in Catalogs /\ Wanted \subseteq Images
    BY StackStep, WantedClosed DEF Fixed, Typing, TypeOK
  <2>1. PICK t \in Seq(Images) : t = Top.images /\ t = images'
    BY <1>3, Finished DEF ReturnLast
  <2>2. /\ Len(t) > 0 /\ t[1] = Root /\ Elements(t) = Wanted /\ Wanted \subseteq Valid
        /\ withDeps => /\ Settled(Root, t)
                       /\ \A i \in Images : \A k \in 1 .. Len(requires[i]) :
                            Follows(i, requires[i][k].image, t)
    BY <1>3, <2>1, Finished
  <2>3. Wanted' = Wanted /\ Valid' = Valid
    BY <1>3, <2>0, NeedsFixed DEF ReturnLast, Valid, world
  <2>4. FetchedIsWanted'
    <3>1. t # <<>>
      BY <2>2
    <3> QED
      BY <2>1, <2>2, <2>3, <3>1 DEF FetchedIsWanted, Elements
  <2>5. FetchedIsSound'
    <3>1. ASSUME withDeps', NEW i \in Wanted'
          PROVE  ~InCycle(i)' /\ \A d \in Elements(requires'[i]) : d.labels = "complete"
      <4>1. withDeps /\ Settled(Root, t)
        BY <2>0, <2>2, <3>1 DEF Fixed
      <4>2. Settled(Root, t)'
        BY <2>0, <4>1, SettledStays
      <4>3. i \in Closure(Root)'
        BY <3>1, <4>1, <2>0 DEF Wanted, Fixed
      <4> QED
        BY <4>2, <4>3 DEF Settled, Elements
    <3> QED
      BY <2>2, <2>3, <3>1 DEF FetchedIsSound, Elements
  <2>6. DependencyOnTop'
    <3>1. ASSUME withDeps', NEW i \in Wanted', NEW j \in RequiredBy(i)'
          PROVE  Follows(i, j, images')
      <4>1. i \in Images /\ j \in RequiredBy(i) /\ withDeps
        BY <2>0, <2>3, <3>1, NeedsFixed DEF Fixed
      <4>2. PICK k \in 1 .. Len(requires[i]) : requires[i][k].image = j
        BY <2>0, <4>1, RequiredIndex
      <4> QED
        BY <2>1, <2>2, <4>1, <4>2
    <3> QED
      BY <3>1 DEF DependencyOnTop, Follows
  <2> QED
    BY <2>4, <2>5, <2>6 DEF Results
<1>4. UNCHANGED vars \/ outcome' # "fetched" \/ ReturnLast
  BY DEF Next, Step, Fetch, FetchFails, ValidateStructure, GetValidatedImage, Require,
     Overflow, Exhausts, Stalls, Return, Resume, At, Fails, Ends, Over
<1> QED
  BY <1>1, <1>2, <1>3, <1>4

LEMMA WantedAlways == Spec => [](CallsWanted /\ Results)
  BY CallsWantedInit, CallsWantedStep, ResultsInit, ResultsStep, CallsInvInit, CallsInvStep,
     TypingAlways, PTL DEF Spec

-----------------------------------------------------------------------------
(***************************************************************************)
(* The stack.                                                              *)
(***************************************************************************)

\* MaxDepth calls and one that finds no place are more than there are images,
\* so that two are for the same one: it needs itself.
LEMMA DeepIsCircle ==
  ASSUME IsFiniteSet(Images), Cardinality(Images) <= MaxDepth,
         Typing, CallsWanted, Overflow
  PROVE  \E i \in Wanted : InCycle(i)
<1>1. PICK n \in Nat \ {0} : n = Len(calls) /\ n = MaxDepth
  BY TopType DEF Overflow, At
<1>2. /\ Top = calls[n] /\ n \in 1 .. Len(calls) /\ Top.image \in Images
      /\ Top.at \in 1 .. Len(requires[Top.image])
  <2>1. Top = calls[n] /\ n \in 1 .. Len(calls)
    BY <1>1 DEF Top
  <2>2. Top.image \in Images /\ Top.at \in Nat \ {0} /\ Required \in Seq(Dependency)
    BY <2>1, StackType, RequiredType DEF Overflow, At
  <2>3. Top.at <= Len(Required) /\ Required = requires[Top.image]
    BY <2>2 DEF Overflow, Required
  <2> QED
    BY <2>1, <2>2, <2>3
<1> DEFINE next == requires[Top.image][Top.at].image
           f == [m \in 1 .. n + 1 |-> IF m <= n THEN calls[m].image ELSE next]
<1>3. next \in RequiredBy(Top.image) /\ next \in Images
  BY <1>2, RequiredImages DEF Typing, TypeOK
<1>4. \A m \in 1 .. n : calls[m].image \in Images /\ ChainInv(m)
  BY <1>1, StackType DEF CallsWanted
<1>5. f \in [1 .. n + 1 -> Images]
  <2>1. \A m \in 1 .. n + 1 : m <= n => m \in 1 .. n
    OBVIOUS
  <2> QED
    BY <1>3, <1>4, <2>1
<1>6. PICK x \in 1 .. n + 1, y \in 1 .. n + 1 : x # y /\ f[x] = f[y]
  <2>1. IsFiniteSet(1 .. n + 1) /\ Cardinality(1 .. n + 1) = n + 1
    BY FS_Interval
  <2>2. Cardinality(Images) < Cardinality(1 .. n + 1)
    BY <1>1, <2>1, FS_CardinalityType
  <2> HIDE DEF f
  <2> QED
    BY <1>5, <2>1, <2>2, FS_PigeonHole
<1>7. PICK p \in 1 .. n, q \in 1 .. n + 1 : p < q /\ f[p] = f[q]
  BY <1>6
<1>8. PICK i : i = calls[p].image /\ i = f[q] /\ i \in Images
  BY <1>4, <1>7
<1>9. i \in Wanted
  BY <1>4, <1>8 DEF ChainInv
<1>10. CASE q <= n
  <2>1. calls[q].image = i /\ q \in 1 .. n /\ p \in 1 .. q - 1
    BY <1>7, <1>8, <1>10
  <2>2. ChainInv(q)
    BY <1>4, <2>1
  <2>3. PICK j \in RequiredBy(calls[p].image) : calls[q].image \in Closure(j)
    BY <2>1, <2>2 DEF ChainInv
  <2> QED
    BY <1>8, <1>9, <2>1, <2>3 DEF InCycle
<1>11. CASE q = n + 1
  <2>1. next = i
    BY <1>8, <1>11
  <2>2. CASE p = n
    <3>1. i \in RequiredBy(i)
      BY <1>2, <1>3, <1>8, <2>1, <2>2
    <3>2. i \in Closure(i)
      BY <1>8, ClosureClosed DEF Typing, TypeOK
    <3> QED
      BY <1>9, <3>1, <3>2 DEF InCycle
  <2>3. CASE p # n
    <3>1. p \in 1 .. n - 1 /\ ChainInv(n)
      BY <1>4, <2>3
    <3>2. PICK j \in RequiredBy(i) : Top.image \in Closure(j)
      BY <1>2, <1>8, <3>1 DEF ChainInv
    <3>3. j \in Images
      BY <1>8, <3>2, RequiredIndex DEF Typing, TypeOK
    <3>4. next \in Closure(j)
      BY <1>3, <3>2, <3>3, ClosureClosed DEF Typing, TypeOK
    <3> HIDE DEF next
    <3> QED
      BY <1>9, <2>1, <3>2, <3>4 DEF InCycle
  <2> QED
    BY <2>2, <2>3
<1> QED
  BY <1>10, <1>11

LEMMA CrashStep ==
  ASSUME IsFiniteSet(Images), Cardinality(Images) <= MaxDepth
  PROVE  Typing /\ CallsWanted /\ CrashedInCycle /\ [Next]_vars => CrashedInCycle'
<1> SUFFICES ASSUME Typing, CallsWanted, CrashedInCycle, [Next]_vars, outcome' = "crashed"
             PROVE  \E i \in Wanted' : InCycle(i)'
  BY DEF CrashedInCycle
<1>1. Fixed /\ requires \in Catalogs
  BY StackStep DEF Fixed, Typing, TypeOK
<1>2. UNCHANGED vars \/ Overflow
  BY DEF Next, Step, Fetch, FetchFails, ValidateStructure, GetValidatedImage, Require,
     Exhausts, Stalls, ReturnLast, Return, Resume, At, Fails, Ends, Over
<1>3. PICK i \in Wanted : InCycle(i)
  BY <1>2, DeepIsCircle DEF CrashedInCycle, vars
<1>4. PICK j \in RequiredBy(i) : i \in Closure(j)
  BY <1>3 DEF InCycle
<1>5. i \in Images /\ j \in Images
  BY <1>1, <1>4, WantedClosed, RequiredIndex
<1>6. j \in RequiredBy(i)' /\ i \in Closure(j)' /\ i \in Wanted'
  BY <1>1, <1>4, <1>5, NeedsFixed
<1>7. InCycle(i)'
  BY <1>6 DEF InCycle
<1> QED
  BY <1>6, <1>7

-----------------------------------------------------------------------------
(***************************************************************************)
(* The theorems.                                                           *)
(***************************************************************************)

LEMMA CallsAlways == Spec => []CallsInv
  BY CallsInvInit, CallsInvStep, TypingAlways, PTL DEF Spec

\* For every catalog, circles included, and whatever fails: every list under way
\* and the one that is returned begin with Root and hold nothing but cached,
\* valid images (fetch.cpp:69-115).
THEOREM ListsSound == Spec => []ListInv
<1>1. Typing /\ CallsInv /\ CallsWanted /\ Results => ListInv
  BY DEF Typing, ListInv, WantedInv, CallsWanted, Results
<1> QED
  BY <1>1, CallsAlways, TypingAlways, WantedAlways, PTL

\* What fetch_and_validate returns is not empty, begins with the image asked
\* for and was all validated: images[0] of run exists and is it
\* (run.cpp:121-123).
THEOREM FetchedIsValid ==
  Spec => [](outcome = "fetched" =>
               Len(images) > 0 /\ images[1] = Root /\ \A m \in 1 .. Len(images) : images[m] \in Valid)
<1>1. CallsInv => (outcome = "fetched" =>
               Len(images) > 0 /\ images[1] = Root /\ \A m \in 1 .. Len(images) : images[m] \in Valid)
  BY DEF CallsInv, Sound
<1> QED
  BY <1>1, CallsAlways, PTL

\* What run lays over each other is the image asked for and all that it needs,
\* directly or not, and nothing else: for every catalog (fetch.cpp:69-115).
THEOREM WantedFetched == Spec => []FetchedIsWanted
<1>1. Results => FetchedIsWanted
  BY DEF Results
<1> QED
  BY <1>1, WantedAlways, PTL

\* Success means that all of it was there, valid and named, and without a
\* circle anywhere (fetch.cpp:74-112).
THEOREM SoundFetched == Spec => []FetchedIsSound
<1>1. Results => FetchedIsSound
  BY DEF Results
<1> QED
  BY <1>1, WantedAlways, PTL

\* However often the recursion came by an image, its dependencies are extracted
\* over it (fetch.cpp:101-112, linux.cpp:125-131).
THEOREM DependencyAlwaysOnTop == Spec => []DependencyOnTop
<1>1. Results => DependencyOnTop
  BY DEF Results
<1> QED
  BY <1>1, WantedAlways, PTL

\* When the stack has room for a call for each image, only images that need
\* each other in a circle overflow it (fetch.cpp:101-112).
THEOREM CrashIsCircle ==
  ASSUME IsFiniteSet(Images), Cardinality(Images) <= MaxDepth
  PROVE  Spec => []CrashedInCycle
<1>1. Init => CrashedInCycle
  BY DEF Init, CrashedInCycle
<1>2. Typing /\ CallsWanted /\ CrashedInCycle /\ [Next]_vars => CrashedInCycle'
  BY CrashStep
<1> QED
  BY <1>1, <1>2, TypingAlways, WantedAlways, PTL DEF Spec
=============================================================================
