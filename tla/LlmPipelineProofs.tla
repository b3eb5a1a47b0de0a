-------------------------- MODULE LlmPipelineProofs --------------------------
(***************************************************************************)
(* Proofs about LlmPipeline, for any number of samples, layers, steps and  *)
(* prompt tokens, strings of any lengths and any deadline.  Two pairs of   *)
(* semaphores each pass one baton around: whoever has it, the numbers of   *)
(* the samples on both sides are known, and so is what a copy that is cut  *)
(* short finds when it goes on.                                            *)
(***************************************************************************)
EXTENDS LlmPipeline, TLAPS

\* The generation loop: inside it there is a step, and a layer, left; a layer
\* that ends late is the response's last.
GenerationInv ==
  /\ late <= 1
  /\ pc["llm"] \in {"forward", "token"} => pos < Steps
  /\ pc["llm"] = "forward" => layer < Layers
  /\ pc["llm"] \in {"work", "forward"} => late = 0
  /\ pc["llm"] = "token" /\ ~deadline_exceeded => late = 0 /\ layer = Layers

\* From cell p on, the bytes of s up to the end of the string are of K.
Chars == Index \cup {Unknown}
Rest(s, p, K) ==
  \E m \in p..Longest : s[m + 1] = End /\ \A c \in (p + 1)..m : s[c] \in K
Current == Named[done["llm"] + 1]

\* Every variable holds a string, and what the model has copied of one ends no
\* later than it does, whoever runs when.
StringInv ==
  /\ \A f \in Field : Rest(val[f], 0, Chars)
  /\ pc["llm"] = "work" =>
       /\ Rest(val[Current], Len(prompt[Current]), Chars)
       /\ \A n \in 1..4 : n > done["llm"] + 1 => prompt[Named[n]] = <<>>

TypeInv == PipelineTypeOK /\ GenerationInv /\ StringInv

LEMMA Bounds ==
  /\ Deadline \in Nat /\ Steps \in Nat \ {0} /\ Layers \in Nat \ {0}
  /\ 0 \in 0..Deadline /\ Deadline \in 0..Deadline
  /\ 0 \in 0..Steps /\ 0 \in 0..Layers
  /\ MaxIndex \in Nat /\ MaxIndex >= 2
<1>1. /\ Deadline \in Nat /\ Steps \in Nat \ {0} /\ Layers \in Nat \ {0}
      /\ MaxIndex \in Nat /\ MaxIndex >= 2
  BY PipelineAssumption
<1> QED BY <1>1

LEMMA ElementFacts ==
  /\ "sensor" \in Thread /\ "estimator" \in Thread /\ "llm" \in Thread
  /\ \A k \in Index : NextIndex(k) \in Index
  /\ \A s \in {"raw_empty", "raw_full", "est_empty", "est_full"} : Handle[s] \in Object
  /\ \A n \in 1..4 : Measured[n] \in Field /\ Classified[n] \in Field /\ Named[n] \in Field
<1>1. \A k \in Index : NextIndex(k) \in Index
  BY PipelineAssumption DEF Index, NextIndex
<1>2. \A s \in {"raw_empty", "raw_full", "est_empty", "est_full"} : Handle[s] \in Object
  <2> SUFFICES ASSUME NEW s \in {"raw_empty", "raw_full", "est_empty", "est_full"}
               PROVE  Handle[s] \in Object
    OBVIOUS
  <2>1. PICK n \in 1..4 : Semaphores[n] = s
    BY Semaphores[1] = "raw_empty", Semaphores[2] = "raw_full",
       Semaphores[3] = "est_empty", Semaphores[4] = "est_full" DEF Semaphores
  <2>2. (CHOOSE m \in 1..4 : Semaphores[m] = s) \in 1..4
    BY <2>1
  <2>3. s \in {Semaphores[m] : m \in 1..4}
    BY <2>1
  <2> QED BY <2>2, <2>3, PipelineAssumption DEF Handle, Object
<1>3. \A n \in 1..4 : Measured[n] \in Field /\ Classified[n] \in Field /\ Named[n] \in Field
  BY DEF Measured, Classified, Named, Field
<1> QED BY <1>1, <1>2, <1>3 DEF Thread

LEMMA StringFacts ==
  /\ Longest \in Nat /\ Placeholder \in Nat
  /\ Longest >= 1 /\ Placeholder >= 1 /\ Placeholder <= Longest
  /\ Unknown # End /\ \A k \in Index : k # End /\ k # Unknown
  /\ \A f \in Field : \A n \in Lengths[f] : n \in 1..Longest
<1>1. /\ Longest \in Nat \ {0} /\ Placeholder \in 1..Longest /\ MaxIndex \in Nat
      /\ Lengths \in [Field -> SUBSET (1..Longest) \ {{}}]
  BY PipelineAssumption
<1>2. /\ Longest \in Nat /\ Placeholder \in Nat
      /\ Longest >= 1 /\ Placeholder >= 1 /\ Placeholder <= Longest
  BY <1>1
<1>3. Unknown # End /\ \A k \in Index : k # End /\ k # Unknown
  BY <1>1 DEF Unknown, End, Nothing, Index
<1> QED BY <1>1, <1>2, <1>3

\* What the estimator makes of a string, its two strcpy one after the other.
Rewritten(s, x, n) == Strcpy(Strcpy(s, Unknown, Placeholder), x, n)

LEMMA RewrittenCells ==
  ASSUME NEW s, NEW x, NEW n \in 1..Longest, NEW c \in Nat, 1 <= c, c <= Longest + 1
  PROVE  Rewritten(s, x, n)[c] =
           IF c <= n THEN x
           ELSE IF c = n + 1 THEN End
           ELSE IF c <= Placeholder THEN Unknown
           ELSE IF c = Placeholder + 1 THEN End ELSE s[c]
<1>1. c \in Cell
  BY StringFacts DEF Cell
<1>2. Strcpy(s, Unknown, Placeholder)[c] =
        IF c <= Placeholder THEN Unknown ELSE IF c = Placeholder + 1 THEN End ELSE s[c]
  BY <1>1 DEF Strcpy
<1>3. \A t : Strcpy(t, x, n)[c] = IF c <= n THEN x ELSE IF c = n + 1 THEN End ELSE t[c]
  BY <1>1 DEF Strcpy
<1> QED BY <1>2, <1>3 DEF Rewritten

LEMMA RestIs ==
  ASSUME NEW s, NEW p \in Nat, NEW K, NEW m \in Nat, p <= m, m <= Longest,
         s[m + 1] = End, \A c \in Nat : p < c /\ c <= m => s[c] \in K
  PROVE  Rest(s, p, K)
<1>1. m \in p..Longest
  BY StringFacts
<1>2. \A c \in (p + 1)..m : s[c] \in K
  OBVIOUS
<1> QED BY <1>1, <1>2 DEF Rest

LEMMA RestHas ==
  ASSUME NEW s, NEW p \in Nat, NEW K, Rest(s, p, K)
  PROVE  \E m \in Nat : /\ p <= m /\ m <= Longest /\ s[m + 1] = End
                        /\ \A c \in Nat : p < c /\ c <= m => s[c] \in K
<1>1. PICK m \in p..Longest : s[m + 1] = End /\ \A c \in (p + 1)..m : s[c] \in K
  BY DEF Rest
<1>2. m \in Nat /\ p <= m /\ m <= Longest
  BY StringFacts
<1>3. \A c \in Nat : p < c /\ c <= m => c \in (p + 1)..m
  BY <1>2
<1> QED BY <1>1, <1>2, <1>3

LEMMA RestMore ==
  ASSUME NEW s, NEW p \in Nat, NEW K, NEW L, K \subseteq L, Rest(s, p, K)
  PROVE  Rest(s, p, L)
BY DEF Rest

\* A string that changes under a copy still ends behind what was copied.
LEMMA RestKept ==
  ASSUME NEW s, NEW p \in Nat, NEW K, NEW x, x \in K \/ x = End, Unknown \in K,
         NEW n \in 1..Longest, Rest(s, p, K)
  PROVE  Rest(Rewritten(s, x, n), p, K)
<1> DEFINE w == Rewritten(s, x, n)
<1>1. \A c \in Nat : 1 <= c /\ c <= Longest + 1 =>
        w[c] = IF c <= n THEN x
               ELSE IF c = n + 1 THEN End
               ELSE IF c <= Placeholder THEN Unknown
               ELSE IF c = Placeholder + 1 THEN End ELSE s[c]
  BY RewrittenCells
<1> HIDE DEF w
<1>2. n \in Nat /\ 1 <= n /\ n <= Longest /\ Longest \in Nat
      /\ Placeholder \in Nat /\ Placeholder <= Longest
  BY StringFacts
<1>3. CASE p <= n /\ x = End
  <2>1. w[p + 1] = End
    BY <1>1, <1>2, <1>3
  <2>2. \A c \in Nat : p < c /\ c <= p => w[c] \in K
    OBVIOUS
  <2>3. Rest(w, p, K)
    BY <1>2, <1>3, <2>1, <2>2, RestIs
  <2> QED BY <2>3 DEF w
<1>4. CASE p <= n /\ x \in K
  <2>1. w[n + 1] = End /\ \A c \in Nat : p < c /\ c <= n => w[c] \in K
    BY <1>1, <1>2, <1>4
  <2>2. Rest(w, p, K)
    BY <1>2, <1>4, <2>1, RestIs
  <2> QED BY <2>2 DEF w
<1>5. CASE n < p /\ p <= Placeholder
  <2>1. w[Placeholder + 1] = End
    BY <1>1, <1>2, <1>5
  <2>2. \A c \in Nat : p < c /\ c <= Placeholder => w[c] = Unknown
    BY <1>1, <1>2, <1>5
  <2>3. Rest(w, p, K)
    BY <1>2, <1>5, <2>1, <2>2, RestIs
  <2> QED BY <2>3 DEF w
<1>6. CASE n < p /\ Placeholder < p
  <2>1. PICK m \in Nat : /\ p <= m /\ m <= Longest /\ s[m + 1] = End
                         /\ \A c \in Nat : p < c /\ c <= m => s[c] \in K
    BY RestHas
  <2>2. w[m + 1] = End
    BY <1>1, <1>2, <1>6, <2>1
  <2>3. \A c \in Nat : p < c /\ c <= m => w[c] = s[c]
    BY <1>1, <1>2, <1>6, <2>1
  <2>4. Rest(w, p, K)
    BY <2>1, <2>2, <2>3, RestIs
  <2> QED BY <2>4 DEF w
<1> QED BY <1>2, <1>3, <1>4, <1>5, <1>6

LEMMA RestNew ==
  ASSUME NEW s, NEW x, NEW n \in 1..Longest
  PROVE  Rest(Rewritten(s, x, n), 0, {x}) /\ Rewritten(s, x, n)[1] = x
<1> DEFINE w == Rewritten(s, x, n)
<1>1. n \in Nat /\ 1 <= n /\ n <= Longest /\ Longest \in Nat
  BY StringFacts
<1>2. w[n + 1] = End /\ \A c \in Nat : 1 <= c /\ c <= n => w[c] = x
  BY <1>1, RewrittenCells
<1> HIDE DEF w
<1>3. w[1] = x
  BY <1>1, <1>2
<1>4. Rest(w, 0, {x})
  BY <1>1, <1>2, RestIs
<1> QED BY <1>3, <1>4 DEF w

\* The next byte of a copy.
LEMMA RestOn ==
  ASSUME NEW s, NEW p \in Nat, NEW K, Rest(s, p, K), s[p + 1] # End
  PROVE  p + 1 <= Longest /\ s[p + 1] \in K /\ Rest(s, p + 1, K)
<1>1. PICK m \in Nat : /\ p <= m /\ m <= Longest /\ s[m + 1] = End
                       /\ \A c \in Nat : p < c /\ c <= m => s[c] \in K
  BY RestHas
<1>2. p + 1 <= m /\ p + 1 \in Nat
  BY <1>1
<1>3. \A c \in Nat : p + 1 < c /\ c <= m => s[c] \in K
  BY <1>1
<1>4. p + 1 <= Longest /\ s[p + 1] \in K
  BY <1>1, <1>2, StringFacts
<1> QED BY <1>1, <1>2, <1>3, <1>4, RestIs

LEMMA WaitIn ==
  ASSUME NEW S, NEW t, NEW s, Handle[s] \in Object,
         value \in [Object -> 0..1], waiters \in [Object -> S],
         Append(waiters[Handle[s]], t) \in S, Wait(t, s)
  PROVE  value' \in [Object -> 0..1] /\ waiters' \in [Object -> S]
<1>1. CASE value[Handle[s]] > 0
  <2>1. value' = [value EXCEPT ![Handle[s]] = value[Handle[s]] - 1] /\ waiters' = waiters
    BY <1>1 DEF Wait
  <2>2. value[Handle[s]] - 1 \in 0..1
    BY <1>1
  <2> QED BY <2>1, <2>2
<1>2. CASE ~(value[Handle[s]] > 0)
  BY <1>2 DEF Wait
<1> QED BY <1>1, <1>2

LEMMA SignalIn ==
  ASSUME NEW S, NEW s, Handle[s] \in Object,
         value \in [Object -> 0..1], waiters \in [Object -> S],
         waiters[Handle[s]] # <<>> => Tail(waiters[Handle[s]]) \in S, Signal(s)
  PROVE  value' \in [Object -> 0..1] /\ waiters' \in [Object -> S]
BY DEF Signal

SemTypeOK == value \in [Object -> 0..1] /\ waiters \in [Object -> Seq(Thread)]

LEMMA SemTypes ==
  ASSUME SemTypeOK, NEW t \in Thread,
         NEW s \in {"raw_empty", "raw_full", "est_empty", "est_full"},
         Wait(t, s) \/ Signal(s)
  PROVE  SemTypeOK'
<1>1. Handle[s] \in Object
  BY ElementFacts
<1>2. /\ Append(waiters[Handle[s]], t) \in Seq(Thread)
      /\ waiters[Handle[s]] # <<>> => Tail(waiters[Handle[s]]) \in Seq(Thread)
  BY <1>1 DEF SemTypeOK
<1> HIDE <1>1, <1>2
<1>3. CASE Wait(t, s)
  BY <1>1, <1>2, <1>3, WaitIn DEF SemTypeOK
<1>4. CASE Signal(s)
  BY <1>1, <1>2, <1>4, SignalIn DEF SemTypeOK
<1> QED BY <1>3, <1>4

Place == {"wait", "work", "signal", "offer", "announce", "time", "forward", "token",
          "sleep"}

ThreadTypeOK == pc \in [Thread -> Place] /\ done \in [Thread -> 0..3]
                /\ sleep \in [Thread -> 0..5]

DataTypeOK ==
  /\ i \in Index /\ estimates \in Index /\ prompts \in Index
  /\ raw \in [Field -> Index \cup {Nothing}]
  /\ val \in [Field -> [Cell -> Index \cup {End, Unknown}]]
  /\ prompt \in [Field -> Seq(Index \cup {Unknown})]

GenerateTypeOK ==
  /\ left \in 0..Deadline /\ deadline_exceeded \in BOOLEAN
  /\ pos \in 0..Steps /\ layer \in 0..Layers /\ late \in Nat

LEMMA TypeParts ==
  PipelineTypeOK <=> /\ policy \in Policies /\ running \in Thread \cup {Nobody}
                     /\ SemTypeOK /\ ThreadTypeOK /\ DataTypeOK /\ GenerateTypeOK
BY DEF PipelineTypeOK, SemTypeOK, ThreadTypeOK, DataTypeOK, GenerateTypeOK, Place

LEMMA WorksTypes ==
  ASSUME ThreadTypeOK, NEW t \in Thread, NEW order, NEW f, Works(t, order, f)
  PROVE  done' \in [Thread -> 0..3]
<1>1. (done[t] + 1) % 4 \in 0..3
  BY DEF ThreadTypeOK
<1> QED BY <1>1 DEF Works, ThreadTypeOK

LEMMA GoToTypes ==
  ASSUME ThreadTypeOK, NEW t \in Thread, NEW where \in Place, GoTo(t, where)
  PROVE  pc' \in [Thread -> Place]
BY DEF GoTo, ThreadTypeOK

LEMMA SleepTypes ==
  ASSUME ThreadTypeOK, NEW t \in Thread, GoesToSleep(t)
  PROVE  pc' \in [Thread -> Place] /\ sleep' \in [Thread -> 0..5]
<1>1. SleepOf[t] \in 0..5
  BY DEF SleepOf
<1> QED BY <1>1, GoToTypes DEF GoesToSleep, ThreadTypeOK, Place

LEMMA SensorTypes ==
  ASSUME TypeInv, Sensor
  PROVE  SemTypeOK' /\ ThreadTypeOK' /\ DataTypeOK' /\ GenerateTypeOK'
<1>0. SemTypeOK /\ ThreadTypeOK /\ DataTypeOK /\ GenerateTypeOK
  BY TypeParts DEF TypeInv
<1>1. UNCHANGED <<val, prompt, left, deadline_exceeded, pos, layer, late, estimates, prompts>>
  BY DEF Sensor, generateVars
<1>2. GenerateTypeOK'
  BY <1>0, <1>1 DEF GenerateTypeOK
<1>3. CASE /\ Wait("sensor", "raw_empty") /\ GoTo("sensor", "work")
           /\ UNCHANGED <<done, sleep, i, raw>>
  BY <1>0, <1>1, <1>2, <1>3, SemTypes, GoToTypes, ElementFacts
     DEF ThreadTypeOK, DataTypeOK, Place
<1>4. ASSUME NEW f \in Field, Works("sensor", Measured, f),
             raw' = [raw EXCEPT ![f] = i],
             GoTo("sensor", "signal") \/ UNCHANGED pc,
             UNCHANGED <<semVars, sleep, i>>
      PROVE  SemTypeOK' /\ ThreadTypeOK' /\ DataTypeOK'
  <2>1. ThreadTypeOK'
    BY <1>0, <1>4, WorksTypes, GoToTypes, ElementFacts DEF ThreadTypeOK, Place
  <2> QED BY <1>0, <1>1, <1>4, <2>1 DEF semVars, SemTypeOK, DataTypeOK
<1>5. CASE /\ Signal("raw_full") /\ GoTo("sensor", "sleep")
           /\ UNCHANGED <<done, sleep, i, raw>>
  BY <1>0, <1>1, <1>2, <1>5, SemTypes, GoToTypes, ElementFacts
     DEF ThreadTypeOK, DataTypeOK, Place
<1>6. CASE GoesToSleep("sensor") /\ i' = NextIndex(i) /\ UNCHANGED <<semVars, done, raw>>
  BY <1>0, <1>1, <1>2, <1>6, SleepTypes, ElementFacts
     DEF ThreadTypeOK, DataTypeOK, SemTypeOK, semVars
<1> QED BY <1>2, <1>3, <1>4, <1>5, <1>6 DEF Sensor

LEMMA StrcpyTypes ==
  ASSUME NEW C, End \in C, Unknown \in C, NEW s \in [Cell -> C], NEW x \in C, NEW n
  PROVE  Strcpy(Strcpy(s, Unknown, Placeholder), x, n) \in [Cell -> C]
BY DEF Strcpy

LEMMA EstimatorTypes ==
  ASSUME TypeInv, Estimator
  PROVE  SemTypeOK' /\ ThreadTypeOK' /\ DataTypeOK' /\ GenerateTypeOK'
<1>0. SemTypeOK /\ ThreadTypeOK /\ DataTypeOK /\ GenerateTypeOK
  BY TypeParts DEF TypeInv
<1>1. UNCHANGED <<i, raw, prompt, left, deadline_exceeded, pos, layer, late, prompts>>
  BY DEF Estimator, generateVars
<1>2. GenerateTypeOK'
  BY <1>0, <1>1 DEF GenerateTypeOK
<1>3. ASSUME NEW s \in {"raw_full", "est_empty"}, NEW where \in {"work", "announce"},
             Wait("estimator", s), GoTo("estimator", where),
             UNCHANGED <<done, sleep, val, estimates>>
      PROVE  SemTypeOK' /\ ThreadTypeOK' /\ DataTypeOK'
  BY <1>0, <1>1, <1>3, SemTypes, GoToTypes, ElementFacts
     DEF ThreadTypeOK, DataTypeOK, Place
<1>4. ASSUME NEW f \in Field, NEW n \in Lengths[f], Works("estimator", Classified, f),
             val' = [val EXCEPT ![f] =
                       Strcpy(Strcpy(val[f], Unknown, Placeholder), raw[f], n)],
             GoTo("estimator", "signal") \/ UNCHANGED pc,
             UNCHANGED <<semVars, sleep, estimates>>
      PROVE  SemTypeOK' /\ ThreadTypeOK' /\ DataTypeOK'
  <2>1. ThreadTypeOK'
    BY <1>0, <1>4, WorksTypes, GoToTypes, ElementFacts DEF ThreadTypeOK, Place
  <2>2. val' \in [Field -> [Cell -> Index \cup {End, Unknown}]]
    <3>1. /\ val \in [Field -> [Cell -> Index \cup {End, Unknown}]]
          /\ raw[f] \in Index \cup {End, Unknown}
      BY <1>0 DEF DataTypeOK, End
    <3>2. Strcpy(Strcpy(val[f], Unknown, Placeholder), raw[f], n)
            \in [Cell -> Index \cup {End, Unknown}]
      BY <3>1, StrcpyTypes
    <3> QED BY <1>4, <3>1, <3>2
  <2>3. SemTypeOK'
    BY <1>0, <1>4 DEF semVars, SemTypeOK
  <2>4. DataTypeOK'
    BY <1>0, <1>1, <1>4, <2>2 DEF DataTypeOK
  <2> QED BY <2>1, <2>3, <2>4
<1>5. ASSUME NEW s \in {"raw_empty", "est_full"}, NEW where \in {"offer", "sleep"},
             Signal(s), GoTo("estimator", where),
             estimates' \in {estimates, NextIndex(estimates)},
             UNCHANGED <<done, sleep, val>>
      PROVE  SemTypeOK' /\ ThreadTypeOK' /\ DataTypeOK'
  BY <1>0, <1>1, <1>5, SemTypes, GoToTypes, ElementFacts
     DEF ThreadTypeOK, DataTypeOK, Place
<1>6. CASE GoesToSleep("estimator") /\ UNCHANGED <<semVars, done, val, estimates>>
  BY <1>0, <1>1, <1>2, <1>6, SleepTypes, ElementFacts
     DEF ThreadTypeOK, DataTypeOK, SemTypeOK, semVars
<1> QED BY <1>2, <1>3, <1>4, <1>5, <1>6 DEF Estimator

LEMMA PromptTypes ==
  ASSUME TypeInv, Prompt
  PROVE  /\ SemTypeOK' /\ ThreadTypeOK' /\ DataTypeOK' /\ GenerateTypeOK'
         /\ GenerationInv'
<1>0. SemTypeOK /\ ThreadTypeOK /\ DataTypeOK /\ GenerateTypeOK
  BY TypeParts DEF TypeInv
<1>1. UNCHANGED <<sleep, i, raw, val, estimates, prompts>>
  BY DEF Prompt
<1>2. CASE /\ pc["llm"] = "wait" /\ Wait("llm", "est_full") /\ GoTo("llm", "time")
           /\ UNCHANGED <<done, prompt, generateVars>>
  <2>1. SemTypeOK'
    BY <1>0, <1>2, SemTypes, ElementFacts
  <2>2. ThreadTypeOK' /\ DataTypeOK' /\ GenerateTypeOK'
    BY <1>0, <1>1, <1>2, GoToTypes, ElementFacts
       DEF ThreadTypeOK, DataTypeOK, GenerateTypeOK, generateVars, Place
  <2>3. pc'["llm"] = "time" /\ late' = late
    BY <1>0, <1>2, ElementFacts DEF GoTo, ThreadTypeOK, generateVars
  <2> QED BY <2>1, <2>2, <2>3 DEF TypeInv, GenerationInv
<1>3. CASE /\ left' = Deadline /\ deadline_exceeded' = FALSE /\ late' = 0
           /\ prompt' = EmptyPrompt /\ GoTo("llm", "work")
           /\ UNCHANGED <<semVars, done, pos, layer>>
  <2>1. SemTypeOK' /\ ThreadTypeOK'
    BY <1>0, <1>1, <1>3, GoToTypes, ElementFacts
       DEF SemTypeOK, ThreadTypeOK, semVars, Place
  <2>2. DataTypeOK'
    <3>1. prompt' \in [Field -> Seq(Index \cup {Unknown})]
      BY <1>3 DEF EmptyPrompt
    <3> QED BY <1>0, <1>1, <3>1 DEF DataTypeOK
  <2>3. GenerateTypeOK'
    <3>1. left' \in 0..Deadline /\ deadline_exceeded' \in BOOLEAN /\ late' \in Nat
      BY <1>3, Bounds
    <3>2. pos' \in 0..Steps /\ layer' \in 0..Layers
      BY <1>0, <1>3 DEF GenerateTypeOK
    <3> QED BY <3>1, <3>2 DEF GenerateTypeOK
  <2>4. pc'["llm"] = "work"
    BY <1>0, <1>3, ElementFacts DEF GoTo, ThreadTypeOK
  <2> QED BY <1>3, <2>1, <2>2, <2>3, <2>4 DEF GenerationInv
<1>4. ASSUME NEW f \in Field, Works("llm", Named, f),
             UNCHANGED <<semVars, prompt>>,
             \/ UNCHANGED <<pc, generateVars>>
             \/ /\ GoTo("llm", "forward") /\ deadline_exceeded' = FALSE
                /\ pos' = 0 /\ layer' = 0 /\ UNCHANGED <<left, late>>
      PROVE  /\ SemTypeOK' /\ ThreadTypeOK' /\ DataTypeOK' /\ GenerateTypeOK'
             /\ GenerationInv'
  <2>1. SemTypeOK' /\ ThreadTypeOK'
    BY <1>0, <1>1, <1>4, WorksTypes, GoToTypes, ElementFacts
       DEF SemTypeOK, ThreadTypeOK, semVars, Place
  <2>2. DataTypeOK'
    BY <1>0, <1>1, <1>4 DEF DataTypeOK
  <2>3. GenerateTypeOK'
    <3>1. CASE UNCHANGED <<pc, generateVars>>
      BY <1>0, <3>1 DEF GenerateTypeOK, generateVars
    <3>2. CASE /\ deadline_exceeded' = FALSE /\ pos' = 0 /\ layer' = 0
               /\ UNCHANGED <<left, late>>
      <4>1. pos' \in 0..Steps /\ layer' \in 0..Layers /\ deadline_exceeded' \in BOOLEAN
        BY <3>2, Bounds
      <4> QED BY <1>0, <3>2, <4>1 DEF GenerateTypeOK
    <3> QED BY <1>4, <3>1, <3>2
  <2>4. pc["llm"] = "work" /\ late = 0
    BY <1>4 DEF Works, TypeInv, GenerationInv
  <2>5. CASE UNCHANGED <<pc, generateVars>>
    BY <2>1, <2>2, <2>3, <2>4, <2>5 DEF TypeInv, GenerationInv, generateVars
  <2>6. CASE /\ GoTo("llm", "forward") /\ pos' = 0 /\ layer' = 0 /\ late' = late
    <3>1. pc'["llm"] = "forward"
      BY <1>0, <2>6, ElementFacts DEF GoTo, ThreadTypeOK
    <3> QED BY <2>1, <2>2, <2>3, <2>4, <2>6, <3>1, PipelineAssumption DEF GenerationInv
  <2> QED BY <1>4, <2>5, <2>6
<1>5. ASSUME NEW f \in Field, f = Current, NextChar(f) # End, pc["llm"] = "work",
             prompt' = [prompt EXCEPT ![f] = Append(prompt[f], NextChar(f))],
             UNCHANGED <<semVars, pc, done, generateVars>>
      PROVE  /\ SemTypeOK' /\ ThreadTypeOK' /\ DataTypeOK' /\ GenerateTypeOK'
             /\ GenerationInv'
  <2>1. prompt \in [Field -> Seq(Index \cup {Unknown})] /\ Len(prompt[f]) \in Nat
    BY <1>0 DEF DataTypeOK
  <2>2. NextChar(f) \in Chars
    <3>1. Rest(val[f], Len(prompt[f]), Chars)
      BY <1>5 DEF TypeInv, StringInv
    <3> QED BY <1>5, <2>1, <3>1, RestOn DEF NextChar
  <2>3. prompt' \in [Field -> Seq(Index \cup {Unknown})]
    BY <1>5, <2>1, <2>2 DEF Chars
  <2>4. DataTypeOK'
    BY <1>0, <1>1, <2>3 DEF DataTypeOK
  <2> QED BY <1>0, <1>1, <1>5, <2>4
          DEF SemTypeOK, ThreadTypeOK, GenerateTypeOK, TypeInv, GenerationInv, semVars,
              generateVars
<1> QED BY <1>2, <1>3, <1>4, <1>5 DEF Prompt, Current

LEMMA GenerateTypes ==
  ASSUME TypeInv, Forward \/ Token \/ Respond
  PROVE  /\ SemTypeOK' /\ ThreadTypeOK' /\ DataTypeOK' /\ GenerateTypeOK'
         /\ GenerationInv'
<1>0. SemTypeOK /\ ThreadTypeOK /\ DataTypeOK /\ GenerateTypeOK /\ GenerationInv
  BY TypeParts DEF TypeInv
<1>1. Steps \in Nat /\ Layers \in Nat /\ "llm" \in Thread
  BY PipelineAssumption, ElementFacts
<1>2. CASE Forward
  <2>1. UNCHANGED <<semVars, done, sleep, dataVars, left, pos, estimates, prompts>>
    BY <1>2 DEF Forward
  <2>2. SemTypeOK' /\ DataTypeOK'
    BY <1>0, <2>1 DEF SemTypeOK, DataTypeOK, semVars, dataVars
  <2>3. pc["llm"] = "forward" /\ late = 0 /\ layer < Layers /\ pos < Steps
    BY <1>0, <1>2 DEF Forward, GenerationInv
  <2>4. \/ /\ deadline_exceeded' = TRUE /\ late' = 1 /\ GoTo("llm", "token") /\ layer' = layer
        \/ /\ deadline_exceeded' = deadline_exceeded /\ late' = 0 /\ layer' = layer + 1
           /\ \/ layer + 1 = Layers /\ GoTo("llm", "token")
              \/ layer + 1 # Layers /\ pc' = pc
    BY <1>2, <2>3 DEF Forward
  <2>5. ThreadTypeOK'
    BY <1>0, <1>1, <2>1, <2>4, GoToTypes DEF ThreadTypeOK, Place
  <2>6. GenerateTypeOK'
    <3>1. layer' \in 0..Layers
      <4>1. layer \in 0..Layers /\ (layer' = layer \/ layer' = layer + 1)
        BY <1>0, <2>4 DEF GenerateTypeOK
      <4> QED BY <1>1, <2>3, <4>1
    <3>2. deadline_exceeded' \in BOOLEAN /\ late' \in Nat
      <4>1. late' = 0 \/ late' = 1
        BY <2>4
      <4>2. late' \in Nat
        BY <4>1
      <4>3. deadline_exceeded' \in BOOLEAN
        BY <1>0, <2>4 DEF GenerateTypeOK
      <4> QED BY <4>2, <4>3
    <3> QED BY <1>0, <2>1, <3>1, <3>2 DEF GenerateTypeOK
  <2>7. GoTo("llm", "token") => pc'["llm"] = "token"
    BY <1>0, <1>1 DEF GoTo, ThreadTypeOK
  <2>8. GenerationInv'
    BY <1>0, <1>1, <2>1, <2>3, <2>4, <2>7 DEF GenerationInv, GenerateTypeOK
  <2> QED BY <2>2, <2>5, <2>6, <2>8
<1>3. CASE Token
  <2>1. UNCHANGED <<semVars, done, sleep, dataVars, left, deadline_exceeded, late,
                    estimates, prompts>>
    BY <1>3 DEF Token
  <2>2. SemTypeOK' /\ DataTypeOK'
    BY <1>0, <2>1 DEF SemTypeOK, DataTypeOK, semVars, dataVars
  <2>3. pc["llm"] = "token" /\ pos < Steps
    BY <1>0, <1>3 DEF Token, GenerationInv
  <2>4. \/ GoTo("llm", "signal") /\ layer' = layer /\ pos' \in {pos, pos + 1}
        \/ /\ GoTo("llm", "forward") /\ layer' = 0 /\ pos' = pos + 1
           /\ pos + 1 < Steps /\ ~deadline_exceeded
    BY <1>3 DEF Token
  <2>5. ThreadTypeOK'
    BY <1>0, <1>1, <2>1, <2>4, GoToTypes DEF ThreadTypeOK, Place
  <2>6. GenerateTypeOK'
    BY <1>0, <1>1, <2>1, <2>3, <2>4 DEF GenerateTypeOK
  <2>7. /\ GoTo("llm", "signal") => pc'["llm"] = "signal"
        /\ GoTo("llm", "forward") => pc'["llm"] = "forward"
    BY <1>0, <1>1 DEF GoTo, ThreadTypeOK
  <2>8. GenerationInv'
    BY <1>0, <2>1, <2>3, <2>4, <2>7, PipelineAssumption DEF GenerationInv, GenerateTypeOK
  <2> QED BY <2>2, <2>5, <2>6, <2>8
<1>4. CASE Respond
  <2>1. UNCHANGED <<done, dataVars, generateVars, estimates>>
    BY <1>4 DEF Respond
  <2>2. \/ /\ Signal("est_empty") /\ prompts' = NextIndex(prompts)
           /\ GoTo("llm", "sleep") /\ sleep' = sleep
        \/ GoesToSleep("llm") /\ UNCHANGED <<semVars, prompts>>
    BY <1>4 DEF Respond
  <2>3. SemTypeOK'
    BY <1>0, <1>1, <2>2, SemTypes DEF SemTypeOK, semVars
  <2>4. ThreadTypeOK'
    BY <1>0, <1>1, <2>1, <2>2, GoToTypes, SleepTypes DEF ThreadTypeOK, Place
  <2>5. DataTypeOK' /\ GenerateTypeOK'
    BY <1>0, <2>1, <2>2, ElementFacts DEF DataTypeOK, GenerateTypeOK, dataVars, generateVars
  <2>6. pc'["llm"] \in {"sleep", "wait"}
    BY <1>0, <1>1, <2>2 DEF GoTo, GoesToSleep, ThreadTypeOK
  <2> QED BY <1>0, <2>1, <2>3, <2>4, <2>5, <2>6 DEF GenerationInv, generateVars
<1> QED BY <1>2, <1>3, <1>4

LEMMA CurrentFacts ==
  ASSUME ThreadTypeOK
  PROVE  /\ Current \in Field /\ done["llm"] \in 0..3
         /\ \A m, n \in 1..4 : m # n => Named[m] # Named[n]
<1>1. done["llm"] \in 0..3
  BY ElementFacts DEF ThreadTypeOK
<1>2. done["llm"] + 1 \in 1..4
  BY <1>1
<1> QED BY <1>1, <1>2, ElementFacts DEF Current, Named

\* A copy under way, and the strings it is still to come to.
LEMMA StringPrompt ==
  ASSUME TypeInv, Prompt
  PROVE  StringInv'
<1>0. /\ ThreadTypeOK /\ DataTypeOK /\ StringInv
      /\ Current \in Field /\ done["llm"] \in 0..3
      /\ \A m, n \in 1..4 : m # n => Named[m] # Named[n]
  BY TypeParts, CurrentFacts DEF TypeInv
<1>1. val' = val
  BY DEF Prompt
<1>2. \A f \in Field : Rest(val[f], 0, Chars)
  BY <1>0 DEF StringInv
<1>3. (\A f \in Field : Rest(val[f], 0, Chars))'
  BY <1>1, <1>2
<1>4. CASE pc'["llm"] # "work"
  BY <1>3, <1>4 DEF StringInv
<1>5. CASE /\ prompt' = EmptyPrompt /\ done' = done
  <2>1. \A f \in Field : prompt'[f] = <<>> /\ Len(prompt'[f]) = 0
    BY <1>5 DEF EmptyPrompt
  <2>2. Current' = Current
    BY <1>5 DEF Current
  <2>3. \A n \in 1..4 : prompt'[Named[n]] = <<>>
    BY <2>1, ElementFacts
  <2> QED BY <1>0, <1>1, <1>2, <1>3, <2>1, <2>2, <2>3 DEF StringInv
<1>6. ASSUME NEW f \in Field, f = Current, NextChar(f) # End, pc["llm"] = "work",
             prompt' = [prompt EXCEPT ![f] = Append(prompt[f], NextChar(f))],
             UNCHANGED done
      PROVE  StringInv'
  <2>1. prompt \in [Field -> Seq(Index \cup {Unknown})] /\ Len(prompt[f]) \in Nat
    BY <1>0 DEF DataTypeOK
  <2>2. Rest(val[f], Len(prompt[f]) + 1, Chars)
    <3>1. Rest(val[f], Len(prompt[f]), Chars)
      BY <1>0, <1>6 DEF StringInv
    <3> QED BY <1>6, <2>1, <3>1, RestOn DEF NextChar
  <2>3. Len(prompt'[f]) = Len(prompt[f]) + 1
    BY <1>6, <2>1
  <2>4. ASSUME NEW n \in 1..4, n > done["llm"] + 1
        PROVE  prompt'[Named[n]] = <<>>
    <3>1. prompt[Named[n]] = <<>>
      BY <1>0, <1>6, <2>4 DEF StringInv
    <3>2. Named[n] # f
      BY <1>0, <1>6, <2>4 DEF Current
    <3> QED BY <1>6, <2>1, <3>1, <3>2, ElementFacts
  <2>5. Current' = f
    BY <1>6 DEF Current
  <2> QED BY <1>1, <1>3, <1>6, <2>2, <2>3, <2>4, <2>5 DEF StringInv
<1>7. ASSUME done["llm"] < 3, pc["llm"] = "work", prompt' = prompt,
             done' = [done EXCEPT !["llm"] = (done["llm"] + 1) % 4]
      PROVE  StringInv'
  <2>1. done'["llm"] = done["llm"] + 1
    <3>1. (done["llm"] + 1) % 4 = done["llm"] + 1
      BY <1>0, <1>7
    <3> QED BY <1>0, <1>7, <3>1, ElementFacts DEF ThreadTypeOK
  <2>2. \A n \in 1..4 : n > done["llm"] + 1 => prompt[Named[n]] = <<>>
    BY <1>0, <1>7 DEF StringInv
  <2>3. done["llm"] + 2 \in 1..4 /\ Current' = Named[done["llm"] + 2]
    BY <1>0, <1>7, <2>1 DEF Current
  <2>4. Len(prompt'[Current']) = 0 /\ Current' \in Field
    BY <1>0, <1>7, <2>2, <2>3, ElementFacts
  <2>5. \A n \in 1..4 : n > done'["llm"] + 1 => prompt'[Named[n]] = <<>>
    BY <1>0, <1>7, <2>1, <2>2
  <2>6. Rest(val'[Current'], Len(prompt'[Current']), Chars)
    BY <1>1, <1>2, <2>4
  <2> QED BY <1>3, <2>5, <2>6 DEF StringInv
<1> DEFINE Ends == /\ pc["llm"] = "work" /\ prompt' = prompt
                   /\ done' = [done EXCEPT !["llm"] = (done["llm"] + 1) % 4]
                   /\ done["llm"] >= 3 => GoTo("llm", "forward")
<1>8. CASE Ends
  <2>1. CASE done["llm"] >= 3
    BY <1>0, <1>4, <1>8, <2>1, ElementFacts DEF GoTo, ThreadTypeOK
  <2>2. CASE done["llm"] < 3
    BY <1>7, <1>8, <2>2
  <2> QED BY <1>0, <2>1, <2>2
<1>9. CASE GoTo("llm", "time")
  BY <1>0, <1>4, <1>9, ElementFacts DEF GoTo, ThreadTypeOK
<1>10. GoTo("llm", "time") \/ (prompt' = EmptyPrompt /\ done' = done) \/ Ends
       \/ \E f \in Field :
            /\ f = Current /\ NextChar(f) # End /\ pc["llm"] = "work"
            /\ prompt' = [prompt EXCEPT ![f] = Append(prompt[f], NextChar(f))]
            /\ UNCHANGED done
  BY <1>0 DEF Prompt, Works, Current, semVars
<1> QED BY <1>5, <1>6, <1>8, <1>9, <1>10

LEMMA StringStep ==
  ASSUME TypeInv, [Next]_vars
  PROVE  StringInv'
<1>0. /\ ThreadTypeOK /\ DataTypeOK /\ StringInv
      /\ Current \in Field /\ done["llm"] \in 0..3
  BY TypeParts, CurrentFacts DEF TypeInv
<1>1. ASSUME UNCHANGED val,
             pc'["llm"] # "work" \/ (pc'["llm"] = pc["llm"] /\ UNCHANGED prompt
                                     /\ done'["llm"] = done["llm"])
      PROVE  StringInv'
  <2>1. CASE pc'["llm"] # "work"
    BY <1>0, <1>1, <2>1 DEF StringInv
  <2>2. CASE pc'["llm"] = pc["llm"] /\ UNCHANGED prompt /\ done'["llm"] = done["llm"]
    BY <1>0, <1>1, <2>2 DEF StringInv, Current
  <2> QED BY <1>1, <2>1, <2>2
<1>2. CASE Sensor
  BY <1>0, <1>1, <1>2, ElementFacts DEF Sensor, GoTo, GoesToSleep, Works, ThreadTypeOK
<1>3. CASE Estimator
  <2>1. /\ UNCHANGED prompt /\ pc'["llm"] = pc["llm"] /\ done'["llm"] = done["llm"]
        /\ \/ UNCHANGED val
           \/ \E f \in Field : \E n \in Lengths[f] :
                val' = [val EXCEPT ![f] = Rewritten(val[f], raw[f], n)]
    BY <1>0, <1>3, ElementFacts
       DEF Estimator, GoTo, GoesToSleep, Works, ThreadTypeOK, Rewritten
  <2>2. ASSUME NEW f \in Field, NEW n \in Lengths[f],
               val' = [val EXCEPT ![f] = Rewritten(val[f], raw[f], n)]
        PROVE  StringInv'
    <3>1. ASSUME NEW g \in Field, NEW p \in Nat, Rest(val[g], p, Chars)
          PROVE  Rest(val'[g], p, Chars)
      <4>1. n \in 1..Longest /\ Unknown \in Chars
        BY <2>2, StringFacts DEF Chars
      <4>2. raw[f] \in Chars \/ raw[f] = End
        BY <1>0, <2>2 DEF DataTypeOK, Chars, End
      <4>3. CASE g = f
        <5>1. Rest(Rewritten(val[f], raw[f], n), p, Chars)
          BY <3>1, <4>1, <4>2, <4>3, RestKept
        <5> QED BY <1>0, <2>2, <4>3, <5>1 DEF DataTypeOK
      <4>4. CASE g # f
        BY <1>0, <2>2, <3>1, <4>4 DEF DataTypeOK
      <4> QED BY <4>3, <4>4
    <3>2. \A g \in Field : Rest(val'[g], 0, Chars)
      BY <1>0, <3>1 DEF StringInv
    <3>3. Len(prompt[Current]) \in Nat /\ Current' = Current
      BY <1>0, <2>1 DEF DataTypeOK, Current
    <3>4. pc["llm"] = "work" => Rest(val'[Current], Len(prompt[Current]), Chars)
      BY <1>0, <3>1, <3>3 DEF StringInv
    <3>5. \A n_1 \in 1..4 : pc["llm"] = "work" /\ n_1 > done["llm"] + 1 =>
                              prompt[Named[n_1]] = <<>>
      BY <1>0 DEF StringInv
    <3> QED BY <2>1, <3>2, <3>3, <3>4, <3>5 DEF StringInv
  <2> QED BY <1>1, <2>1, <2>2
<1>4. CASE Forward \/ Token \/ Respond
  BY <1>0, <1>1, <1>4, ElementFacts
     DEF Forward, Token, Respond, GoTo, GoesToSleep, ThreadTypeOK, dataVars
<1>5. CASE Tick \/ UNCHANGED vars
  BY <1>1, <1>5 DEF Tick, vars, dataVars
<1> QED BY <1>2, <1>3, <1>4, <1>5, StringPrompt DEF Next, Run, Llm

LEMMA TypeStep ==
  ASSUME TypeInv, [Next]_vars
  PROVE  TypeInv'
<1>0. /\ SemTypeOK /\ ThreadTypeOK /\ DataTypeOK /\ GenerateTypeOK /\ GenerationInv
      /\ policy \in Policies /\ running \in Thread \cup {Nobody}
      /\ StringInv'
  BY TypeParts, StringStep DEF TypeInv
<1>1. CASE Run
  <2>1. policy' \in Policies
    BY <1>0, <1>1 DEF Run
  <2>2. running' \in Thread \cup {Nobody}
    BY <1>1, ElementFacts DEF Run, Leaves
  <2>3. ASSUME Sensor \/ Estimator
        PROVE  GenerationInv'
    <3>1. pc'["llm"] = pc["llm"]
      BY <1>0, <2>3, ElementFacts
         DEF Sensor, Estimator, GoTo, GoesToSleep, ThreadTypeOK
    <3>2. UNCHANGED generateVars
      BY <2>3 DEF Sensor, Estimator
    <3> QED BY <1>0, <3>1, <3>2 DEF GenerationInv, generateVars
  <2>4. SemTypeOK' /\ ThreadTypeOK' /\ DataTypeOK' /\ GenerateTypeOK' /\ GenerationInv'
    BY <1>1, <2>3, SensorTypes, EstimatorTypes, PromptTypes, GenerateTypes DEF Run, Llm
  <2>5. PipelineTypeOK'
    BY <2>1, <2>2, <2>4
       DEF PipelineTypeOK, SemTypeOK, ThreadTypeOK, DataTypeOK, GenerateTypeOK, Place
  <2> QED BY <1>0, <2>4, <2>5 DEF TypeInv
<1>2. CASE Tick
  <2>1. UNCHANGED <<policy, running, semVars, pc, done, dataVars, deadline_exceeded,
                    pos, layer, late, estimates, prompts>>
    BY <1>2 DEF Tick
  <2>2. left' \in 0..Deadline
    BY <1>0, <1>2, PipelineAssumption DEF Tick, GenerateTypeOK
  <2>3. sleep' \in [Thread -> 0..5]
    <3>1. \A t \in Thread : (IF sleep[t] > 0 THEN sleep[t] - 1 ELSE 0) \in 0..5
      BY <1>0 DEF ThreadTypeOK
    <3> QED BY <1>2, <3>1 DEF Tick
  <2>4. SemTypeOK' /\ ThreadTypeOK' /\ DataTypeOK' /\ GenerateTypeOK' /\ GenerationInv'
    BY <1>0, <2>1, <2>2, <2>3
       DEF SemTypeOK, ThreadTypeOK, DataTypeOK, GenerateTypeOK, GenerationInv,
           semVars, dataVars
  <2>5. PipelineTypeOK'
    BY <1>0, <2>1, <2>4
       DEF PipelineTypeOK, SemTypeOK, ThreadTypeOK, DataTypeOK, GenerateTypeOK, Place
  <2> QED BY <1>0, <2>4, <2>5 DEF TypeInv
<1>3. CASE UNCHANGED vars
  BY <1>0, <1>3 DEF TypeInv, PipelineTypeOK, GenerationInv, vars, semVars, dataVars, generateVars
<1> QED BY <1>1, <1>2, <1>3 DEF Next

LEMMA TypeStart == Init => TypeInv
<1> SUFFICES ASSUME Init
             PROVE  TypeInv
  OBVIOUS
<1>1. value \in [Object -> 0..1] /\ waiters \in [Object -> Seq(Thread)]
  BY DEF Init, InitialValues
<1>2. 0 \in Index
  BY PipelineAssumption DEF Index
<1>3. Nowhere \in [Field -> Index \cup {Nothing}]
  BY DEF Nowhere
<1>4. pc["llm"] = "wait"
  BY ElementFacts DEF Init
<1>5. /\ left \in 0..Deadline /\ pos \in 0..Steps /\ layer \in 0..Layers
      /\ late \in Nat /\ late <= 1 /\ deadline_exceeded \in BOOLEAN
  <2>1. left = 0 /\ pos = 0 /\ layer = 0 /\ late = 0
    BY DEF Init
  <2>2. left \in 0..Deadline /\ pos \in 0..Steps /\ layer \in 0..Layers
    BY <2>1, Bounds
  <2>3. deadline_exceeded \in BOOLEAN
    BY DEF Init
  <2> QED BY <2>1, <2>2, <2>3
<1>6. ThreadTypeOK
  BY DEF Init, ThreadTypeOK, Place
<1>7. policy \in Policies /\ running \in Thread \cup {Nobody} /\ DataTypeOK
  <2>1. val \in [Field -> [Cell -> Index \cup {End, Unknown}]]
    BY DEF Init
  <2>2. prompt \in [Field -> Seq(Index \cup {Unknown})]
    BY DEF Init, EmptyPrompt
  <2> QED BY <1>2, <1>3, <2>1, <2>2 DEF Init, DataTypeOK
<1>8. PipelineTypeOK
  BY <1>1, <1>5, <1>6, <1>7, TypeParts DEF SemTypeOK, GenerateTypeOK
<1>9. StringInv
  <2>1. ASSUME NEW f \in Field
        PROVE  Rest(val[f], 0, Chars)
    <3>1. 1 \in Cell /\ 0 \in Nat /\ 0 <= Longest
      BY StringFacts DEF Cell
    <3>2. val[f][0 + 1] = End
      BY <3>1 DEF Init
    <3>3. \A c \in Nat : 0 < c /\ c <= 0 => val[f][c] \in Chars
      OBVIOUS
    <3> QED BY <3>1, <3>2, <3>3, RestIs
  <2> QED BY <1>4, <2>1 DEF StringInv
<1> QED BY <1>4, <1>5, <1>8, <1>9 DEF TypeInv, GenerationInv

LEMMA TypeInvariant == Spec => []TypeInv
BY TypeStart, TypeStep, PTL DEF Spec

\* Every variable of the demonstration keeps its type, whatever the number of
\* semaphores the partition has room for: the semaphores never exceed 1, and
\* the loops of generate and forward stay within the network.
THEOREM PipelineTypeCorrect == Spec => []PipelineTypeOK
BY TypeInvariant, PTL DEF TypeInv

\* At most one layer of a response ends past its deadline and no token comes of
\* a pass that was cut off: forward's look at the clock and generate's at
\* deadline_exceeded work together.
THEOREM GenerationAlwaysStops == Spec => GenerationStops
<1>1. ASSUME TypeInv, [Next]_vars
      PROVE  [late' <= 1 /\ (pos' > pos => layer = Layers)]_vars
  <2>1. late' <= 1
    BY <1>1, TypeStep DEF TypeInv, GenerationInv
  <2>2. ASSUME pos' > pos
        PROVE  Token /\ ~deadline_exceeded
    <3>0. pos \in Nat
      BY <1>1, PipelineAssumption DEF TypeInv, PipelineTypeOK
    <3>1. CASE Prompt
      BY <2>2, <3>0, <3>1 DEF Prompt, generateVars
    <3> QED BY <1>1, <2>2, <3>0, <3>1
            DEF Next, Run, Sensor, Estimator, Llm, Forward, Token, Respond, Tick, vars,
                generateVars
  <2>3. pos' > pos => layer = Layers
    BY <1>1, <2>2 DEF Token, TypeInv, GenerationInv
  <2> QED BY <2>1, <2>3
<1> QED BY <1>1, TypeInvariant, PTL DEF Spec, GenerationStops

-----------------------------------------------------------------------------
\* From here on the partition has room for the four semaphores.

\* Who may wait for each, and where it then is.
WaiterOf == <<"sensor", "estimator", "estimator", "llm">>
BlockedAt == <<"work", "work", "announce", "time">>

QueueInv ==
  \A o \in Object : waiters[o] # <<>> =>
    /\ waiters[o] = <<WaiterOf[o]>> /\ value[o] = 0
    /\ pc[WaiterOf[o]] = BlockedAt[o] /\ done[WaiterOf[o]] = 0

PlaceInv ==
  /\ pc["sensor"] \in {"wait", "work", "signal", "sleep"}
  /\ pc["estimator"] \in {"wait", "work", "signal", "offer", "announce", "sleep"}
  /\ pc["llm"] \in {"wait", "time", "work", "forward", "token", "signal", "sleep"}
  /\ \A t \in Thread : done[t] > 0 => pc[t] = "work"

\* The effects of the operations on the semaphores and of a thread's step,
\* point by point.
Same(o) == value'[o] = value[o] /\ waiters'[o] = waiters[o]
Others(o) == \A p \in 1..4 : p # o => Same(p)
Takes(o) == value[o] = 1 /\ value'[o] = 0 /\ waiters'[o] = waiters[o] /\ Others(o)
Blocks(o) == /\ value[o] = 0 /\ value'[o] = 0
             /\ waiters'[o] = <<WaiterOf[o]>> /\ Others(o)
Posts(o) == waiters[o] = <<>> /\ waiters'[o] = <<>> /\ value'[o] = 1 /\ Others(o)
Wakes(o) == /\ waiters[o] = <<WaiterOf[o]>> /\ waiters'[o] = <<>>
            /\ value'[o] = value[o] /\ Others(o)
SemsSame == \A o \in 1..4 : Same(o)

LEMMA OneIsSome == \A x : <<x>> # <<>>
OBVIOUS

Goes(t, from, to) == /\ pc[t] = from /\ pc'[t] = to
                     /\ \A u \in Thread : u # t => pc'[u] = pc[u]
Sets(new, old, n, x) == /\ new[n] = x
                        /\ \A m \in 1..4 : m # n => new[m] = old[m]
Does(t, then) ==
  /\ pc[t] = "work"
  /\ \A u \in Thread : u # t => done'[u] = done[u] /\ pc'[u] = pc[u]
  /\ \/ done[t] \in 0..2 /\ done'[t] = done[t] + 1 /\ pc'[t] = "work"
     \/ done[t] = 3 /\ done'[t] = 0 /\ pc'[t] = then
In(order, data) == [n \in 1..4 |-> data[order[n]]]

LEMMA Handles ==
  ASSUME NObjects = 4
  PROVE  /\ Object = 1..4
         /\ \A o \in 1..4 : Handle[Semaphores[o]] = o
<1>1. \A m, n \in 1..4 : Semaphores[m] = Semaphores[n] => m = n
  BY DEF Semaphores
<1>2. ASSUME NEW o \in 1..4
      PROVE  Handle[Semaphores[o]] = o
  <2>1. (CHOOSE n \in 1..4 : Semaphores[n] = Semaphores[o]) = o
    BY <1>1
  <2>2. Handle[Semaphores[o]] =
          LET n == CHOOSE n \in 1..4 : Semaphores[n] = Semaphores[o]
          IN IF n <= NObjects THEN n ELSE 1
    BY DEF Handle
  <2> QED BY <2>1, <2>2
<1> QED BY <1>2 DEF Object

LEMMA WaitPoints ==
  ASSUME NObjects = 4, TypeInv, NEW o \in 1..4, waiters[o] = <<>>,
         Wait(WaiterOf[o], Semaphores[o])
  PROVE  Takes(o) \/ Blocks(o)
<1>1. Handle[Semaphores[o]] = o /\ Object = 1..4
  BY Handles
<1>2. value \in [1..4 -> 0..1] /\ DOMAIN waiters = 1..4
  BY <1>1 DEF TypeInv, PipelineTypeOK
<1>3. Append(waiters[o], WaiterOf[o]) = <<WaiterOf[o]>>
  OBVIOUS
<1>4. CASE value[o] > 0
  <2>1. value[o] = 1
    BY <1>2, <1>4
  <2>2. value' = [value EXCEPT ![o] = value[o] - 1] /\ waiters' = waiters
    BY <1>1, <1>4 DEF Wait
  <2> QED BY <1>2, <2>1, <2>2 DEF Takes, Others, Same
<1>5. CASE ~(value[o] > 0)
  <2>1. value[o] = 0
    BY <1>2, <1>5
  <2>2. waiters' = [waiters EXCEPT ![o] = <<WaiterOf[o]>>] /\ value' = value
    BY <1>1, <1>3, <1>5 DEF Wait
  <2> QED BY <1>2, <2>1, <2>2 DEF Blocks, Others, Same
<1> QED BY <1>4, <1>5

LEMMA SignalPoints ==
  ASSUME NObjects = 4, TypeInv, QueueInv, NEW o \in 1..4, Signal(Semaphores[o])
  PROVE  Posts(o) \/ Wakes(o)
<1>1. Handle[Semaphores[o]] = o /\ Object = 1..4
  BY Handles
<1>2. value \in [1..4 -> 0..1] /\ DOMAIN waiters = 1..4
  BY <1>1 DEF TypeInv, PipelineTypeOK
<1>3. CASE waiters[o] = <<>>
  <2>1. value' = [value EXCEPT ![o] = 1] /\ waiters' = waiters
    BY <1>1, <1>3 DEF Signal
  <2> QED BY <1>2, <1>3, <2>1 DEF Posts, Others, Same
<1>4. CASE waiters[o] # <<>>
  <2>1. waiters[o] = <<WaiterOf[o]>> /\ value[o] = 0
    BY <1>1, <1>4 DEF QueueInv
  <2>2. Tail(waiters[o]) = <<>>
    BY <2>1
  <2>3. waiters' = [waiters EXCEPT ![o] = <<>>] /\ value' = value
    BY <1>1, <1>4, <2>1, <2>2 DEF Signal
  <2> QED BY <1>2, <2>1, <2>3 DEF Wakes, Others, Same
<1> QED BY <1>3, <1>4

\* A thread that may run waits for no semaphore.
LEMMA Unblocked ==
  ASSUME QueueInv, NEW o \in Object, NEW t, t = WaiterOf[o], t \notin Waiting
  PROVE  waiters[o] = <<>>
<1> SUFFICES ASSUME waiters[o] # <<>>
             PROVE  FALSE
  OBVIOUS
<1>1. waiters[o] = <<t>>
  BY DEF QueueInv
<1>2. 1 \in 1..Len(waiters[o]) /\ waiters[o][1] = t
  BY <1>1
<1> QED BY <1>2 DEF Waiting

LEMMA Orders ==
  /\ \A m, n \in 1..4 : m # n => /\ Measured[m] # Measured[n]
                                 /\ Classified[m] # Classified[n]
                                 /\ Named[m] # Named[n]
  /\ \A f \in Field : \E l, m, n \in 1..4 :
       Measured[l] = f /\ Classified[m] = f /\ Named[n] = f
<1>1. \A m, n \in 1..4 : m # n => /\ Measured[m] # Measured[n]
                                  /\ Classified[m] # Classified[n]
                                  /\ Named[m] # Named[n]
  BY DEF Measured, Classified, Named
<1>2. ASSUME NEW f \in Field
      PROVE  \E l, m, n \in 1..4 : Measured[l] = f /\ Classified[m] = f /\ Named[n] = f
  <2>1. /\ Measured[1] = "temp" /\ Measured[2] = "humidity"
        /\ Measured[3] = "pressure" /\ Measured[4] = "wind"
        /\ Classified[1] = "temp" /\ Classified[2] = "pressure"
        /\ Classified[3] = "humidity" /\ Classified[4] = "wind"
        /\ Named[1] = "temp" /\ Named[2] = "pressure"
        /\ Named[3] = "wind" /\ Named[4] = "humidity"
    BY DEF Measured, Classified, Named
  <2> QED BY <2>1 DEF Field
<1> QED BY <1>1, <1>2

LEMMA NextIndexFacts ==
  /\ \A a, b \in Index : NextIndex(a) = NextIndex(b) => a = b
  /\ 0 \in Index
BY Bounds DEF Index, NextIndex

\* The first characters of the estimator's strings, and the making of one.
First == [f \in Field |-> val[f][1]]
Rewrites(f, x) ==
  \E n \in 1..Longest : val' = [val EXCEPT ![f] = Rewritten(val[f], x, n)]

LEMMA FirstKept == val' = val => First' = First
BY DEF First

\* The steps of the three threads.
SensorSteps ==
  /\ UNCHANGED <<val, First, prompt, estimates, prompts>>
  /\ \/ /\ Goes("sensor", "wait", "work") /\ (Takes(1) \/ Blocks(1))
        /\ UNCHANGED <<done, i, raw>>
     \/ /\ Does("sensor", "signal") /\ waiters[1] = <<>> /\ SemsSame
        /\ Sets(In(Measured, raw'), In(Measured, raw), done["sensor"] + 1, i)
        /\ UNCHANGED i
     \/ /\ Goes("sensor", "signal", "sleep") /\ waiters[1] = <<>>
        /\ (Posts(2) \/ Wakes(2)) /\ UNCHANGED <<done, i, raw>>
     \/ /\ Goes("sensor", "sleep", "wait") /\ SemsSame
        /\ i' = NextIndex(i) /\ UNCHANGED <<done, raw>>

EstimatorSteps ==
  /\ UNCHANGED <<i, raw, prompt, prompts>>
  /\ \/ /\ Goes("estimator", "wait", "work") /\ (Takes(2) \/ Blocks(2))
        /\ UNCHANGED <<done, val, First, estimates>>
     \/ /\ Does("estimator", "signal") /\ waiters[2] = <<>> /\ SemsSame
        /\ Sets(In(Classified, First'), In(Classified, First), done["estimator"] + 1,
                raw[Classified[done["estimator"] + 1]])
        /\ Rewrites(Classified[done["estimator"] + 1],
                    raw[Classified[done["estimator"] + 1]])
        /\ UNCHANGED estimates
     \/ /\ Goes("estimator", "signal", "offer") /\ waiters[2] = <<>>
        /\ (Posts(1) \/ Wakes(1))
        /\ estimates' = NextIndex(estimates) /\ UNCHANGED <<done, val, First>>
     \/ /\ Goes("estimator", "offer", "announce") /\ (Takes(3) \/ Blocks(3))
        /\ UNCHANGED <<done, val, First, estimates>>
     \/ /\ Goes("estimator", "announce", "sleep") /\ waiters[3] = <<>>
        /\ (Posts(4) \/ Wakes(4)) /\ UNCHANGED <<done, val, First, estimates>>
     \/ /\ Goes("estimator", "sleep", "wait") /\ SemsSame
        /\ UNCHANGED <<done, val, First, estimates>>

Copies ==
  /\ pc["llm"] = "work" /\ waiters[4] = <<>> /\ SemsSame
  /\ UNCHANGED <<pc, done, prompts>>
  /\ NextChar(Current) # End
  /\ prompt' = [prompt EXCEPT ![Current] = Append(prompt[Current], NextChar(Current))]

LlmSteps ==
  /\ UNCHANGED <<i, raw, val, First, estimates>>
  /\ \/ /\ Goes("llm", "wait", "time") /\ (Takes(4) \/ Blocks(4))
        /\ UNCHANGED <<done, prompt, prompts>>
     \/ /\ Goes("llm", "time", "work") /\ waiters[4] = <<>> /\ SemsSame
        /\ prompt' = EmptyPrompt /\ UNCHANGED <<done, prompts>>
     \/ Copies
     \/ /\ Does("llm", "forward") /\ waiters[4] = <<>> /\ SemsSame
        /\ NextChar(Current) = End /\ UNCHANGED <<prompt, prompts>>
     \/ /\ \/ \E to \in {"forward", "token"} : Goes("llm", "forward", to)
           \/ \E to \in {"forward", "signal"} : Goes("llm", "token", to)
        /\ SemsSame /\ UNCHANGED <<done, prompt, prompts>>
     \/ /\ Goes("llm", "signal", "sleep") /\ waiters[4] = <<>>
        /\ (Posts(3) \/ Wakes(3))
        /\ prompts' = NextIndex(prompts) /\ UNCHANGED <<done, prompt>>
     \/ /\ Goes("llm", "sleep", "wait") /\ SemsSame
        /\ UNCHANGED <<done, prompt, prompts>>

LEMMA GoToPoints ==
  ASSUME TypeInv, NEW t \in Thread, NEW from, NEW to, pc[t] = from, GoTo(t, to)
  PROVE  Goes(t, from, to)
BY DEF TypeInv, PipelineTypeOK, GoTo, Goes

LEMMA WorksPoints ==
  ASSUME TypeInv, NEW t \in Thread, NEW order, NEW f, NEW then, Works(t, order, f),
         IF done[t] = 3 THEN GoTo(t, then) ELSE UNCHANGED pc
  PROVE  Does(t, then) /\ done[t] + 1 \in 1..4 /\ f = order[done[t] + 1]
<1>1. done \in [Thread -> 0..3] /\ DOMAIN pc = Thread
  BY DEF TypeInv, PipelineTypeOK
<1>2. done' = [done EXCEPT ![t] = (done[t] + 1) % 4] /\ pc[t] = "work"
  BY DEF Works
<1>3. CASE done[t] = 3
  <2>1. (done[t] + 1) % 4 = 0
    BY <1>3
  <2> QED BY <1>1, <1>2, <1>3, <2>1 DEF Does, GoTo, Works
<1>4. CASE done[t] \in 0..2
  <2>1. (done[t] + 1) % 4 = done[t] + 1 /\ done[t] # 3
    BY <1>4
  <2> QED BY <1>1, <1>2, <1>4, <2>1 DEF Does, Works
<1> QED BY <1>1, <1>3, <1>4

LEMMA SetsPoints ==
  ASSUME NEW S, NEW old \in [Field -> S], NEW new, NEW x,
         NEW order, NEW k \in 1..4, new = [old EXCEPT ![order[k]] = x],
         \A n \in 1..4 : order[n] \in Field,
         \A m, n \in 1..4 : m # n => order[m] # order[n]
  PROVE  Sets(In(order, new), In(order, old), k, x)
BY DEF Sets, In

LEMMA FreePlaces ==
  ASSUME NObjects = 4, QueueInv
  PROVE  /\ pc["sensor"] # "work" => waiters[1] = <<>>
         /\ pc["estimator"] # "work" => waiters[2] = <<>>
         /\ pc["estimator"] # "announce" => waiters[3] = <<>>
         /\ pc["llm"] # "time" => waiters[4] = <<>>
BY Handles DEF QueueInv, WaiterOf, BlockedAt

LEMMA Turn ==
  ASSUME NObjects = 4, QueueInv, NEW t, MayRun(t)
  PROVE  /\ t = "sensor" => waiters[1] = <<>>
         /\ t = "estimator" => waiters[2] = <<>> /\ waiters[3] = <<>>
         /\ t = "llm" => waiters[4] = <<>>
<1>1. t \notin Waiting
  BY DEF MayRun, Ready
<1>2. /\ WaiterOf[1] = "sensor" /\ WaiterOf[2] = "estimator"
      /\ WaiterOf[3] = "estimator" /\ WaiterOf[4] = "llm"
  BY DEF WaiterOf
<1>3. 1 \in Object /\ 2 \in Object /\ 3 \in Object /\ 4 \in Object
  BY Handles
<1> QED BY <1>1, <1>2, <1>3, Unblocked

LEMMA SemaphoreNames ==
  /\ Semaphores[1] = "raw_empty" /\ Semaphores[2] = "raw_full"
  /\ Semaphores[3] = "est_empty" /\ Semaphores[4] = "est_full"
  /\ WaiterOf[1] = "sensor" /\ WaiterOf[2] = "estimator"
  /\ WaiterOf[3] = "estimator" /\ WaiterOf[4] = "llm"
BY DEF Semaphores, WaiterOf

LEMMA SemsKept ==
  ASSUME UNCHANGED semVars
  PROVE  SemsSame
BY DEF semVars, SemsSame, Same

LEMMA SensorPoints ==
  ASSUME NObjects = 4, TypeInv, QueueInv, MayRun("sensor"), Sensor
  PROVE  SensorSteps
<1>1. waiters[1] = <<>>
  BY Turn
<1>2. UNCHANGED <<val, First, prompt, estimates, prompts>>
  BY FirstKept DEF Sensor
<1>3. CASE /\ pc["sensor"] = "wait" /\ Wait("sensor", "raw_empty")
           /\ GoTo("sensor", "work") /\ UNCHANGED <<done, sleep, i, raw>>
  <2>1. Takes(1) \/ Blocks(1)
    BY <1>1, <1>3, WaitPoints, SemaphoreNames
  <2>2. Goes("sensor", "wait", "work")
    BY <1>3, GoToPoints, ElementFacts
  <2> QED BY <1>2, <1>3, <2>1, <2>2 DEF SensorSteps
<1>4. ASSUME NEW f \in Field, Works("sensor", Measured, f),
             raw' = [raw EXCEPT ![f] = i],
             IF done["sensor"] = 3 THEN GoTo("sensor", "signal") ELSE UNCHANGED pc,
             UNCHANGED <<semVars, sleep, i>>
      PROVE  SensorSteps
  <2>1. /\ Does("sensor", "signal") /\ done["sensor"] + 1 \in 1..4
        /\ f = Measured[done["sensor"] + 1]
    BY <1>4, WorksPoints, ElementFacts
  <2>2. raw \in [Field -> Index \cup {Nothing}]
    BY DEF TypeInv, PipelineTypeOK
  <2>3. Sets(In(Measured, raw'), In(Measured, raw), done["sensor"] + 1,
             i)
    <3> DEFINE k == done["sensor"] + 1
    <3>1. k \in 1..4 /\ raw' = [raw EXCEPT ![Measured[k]] = i]
      BY <1>4, <2>1
    <3>2. /\ \A n \in 1..4 : Measured[n] \in Field
          /\ \A m, n \in 1..4 : m # n => Measured[m] # Measured[n]
      BY Orders, ElementFacts
    <3> HIDE DEF k
    <3>3. Sets(In(Measured, raw'), In(Measured, raw), k, i)
      BY <2>2, <3>1, <3>2, SetsPoints
    <3> QED BY <3>3 DEF k
  <2> QED BY <1>1, <1>2, <1>4, <2>1, <2>3, SemsKept DEF SensorSteps
<1>5. CASE /\ pc["sensor"] = "signal" /\ Signal("raw_full")
           /\ GoTo("sensor", "sleep") /\ UNCHANGED <<done, sleep, i, raw>>
  <2>1. Posts(2) \/ Wakes(2)
    BY <1>5, SignalPoints, SemaphoreNames
  <2>2. Goes("sensor", "signal", "sleep")
    BY <1>5, GoToPoints, ElementFacts
  <2> QED BY <1>1, <1>2, <1>5, <2>1, <2>2 DEF SensorSteps
<1>6. CASE /\ GoesToSleep("sensor") /\ i' = NextIndex(i)
           /\ UNCHANGED <<semVars, done, raw>>
  <2>1. Goes("sensor", "sleep", "wait")
    BY <1>6, GoToPoints, ElementFacts DEF GoesToSleep
  <2> QED BY <1>2, <1>6, <2>1, SemsKept DEF SensorSteps
<1> QED BY <1>3, <1>4, <1>5, <1>6 DEF Sensor

LEMMA EstimatorPoints ==
  ASSUME NObjects = 4, TypeInv, QueueInv, MayRun("estimator"), Estimator
  PROVE  EstimatorSteps
<1>1. waiters[2] = <<>> /\ waiters[3] = <<>>
  BY Turn
<1>2. UNCHANGED <<i, raw, prompt, prompts>>
  BY DEF Estimator
<1>3. CASE /\ pc["estimator"] = "wait" /\ Wait("estimator", "raw_full")
           /\ GoTo("estimator", "work") /\ UNCHANGED <<done, sleep, val, estimates>>
  <2>1. Takes(2) \/ Blocks(2)
    BY <1>1, <1>3, WaitPoints, SemaphoreNames
  <2>2. Goes("estimator", "wait", "work")
    BY <1>3, GoToPoints, ElementFacts
  <2> QED BY <1>2, <1>3, <2>1, <2>2, FirstKept DEF EstimatorSteps
<1>4. ASSUME NEW f \in Field, NEW l \in Lengths[f], Works("estimator", Classified, f),
             val' = [val EXCEPT ![f] = Rewritten(val[f], raw[f], l)],
             IF done["estimator"] = 3 THEN GoTo("estimator", "signal")
                                      ELSE UNCHANGED pc,
             UNCHANGED <<semVars, sleep, estimates>>
      PROVE  EstimatorSteps
  <2>1. /\ Does("estimator", "signal") /\ done["estimator"] + 1 \in 1..4
        /\ f = Classified[done["estimator"] + 1]
    BY <1>4, WorksPoints, ElementFacts
  <2>2. l \in 1..Longest /\ val \in [Field -> [Cell -> Index \cup {End, Unknown}]]
    BY StringFacts DEF TypeInv, PipelineTypeOK
  <2>3. Sets(In(Classified, First'), In(Classified, First), done["estimator"] + 1,
             raw[Classified[done["estimator"] + 1]])
    <3> DEFINE k == done["estimator"] + 1
    <3>1. k \in 1..4 /\ f = Classified[k] /\ First \in [Field -> {val[g][1] : g \in Field}]
      BY <2>1 DEF First
    <3>2. /\ \A n \in 1..4 : Classified[n] \in Field
          /\ \A m, n \in 1..4 : m # n => Classified[m] # Classified[n]
      BY Orders, ElementFacts
    <3> HIDE DEF k
    <3>3. First' = [First EXCEPT ![f] = raw[f]]
      <4>1. Rewritten(val[f], raw[f], l)[1] = raw[f]
        BY <2>2, RestNew
      <4> QED BY <1>4, <2>2, <4>1 DEF First
    <3>4. Sets(In(Classified, First'), In(Classified, First), k, raw[Classified[k]])
      BY <3>1, <3>2, <3>3, SetsPoints
    <3> QED BY <3>4 DEF k
  <2>4. Rewrites(f, raw[f])
    BY <1>4, <2>2 DEF Rewrites
  <2> QED BY <1>1, <1>2, <1>4, <2>1, <2>3, <2>4, FirstKept, SemsKept DEF EstimatorSteps
<1>5. CASE /\ pc["estimator"] = "signal" /\ Signal("raw_empty")
           /\ estimates' = NextIndex(estimates)
           /\ GoTo("estimator", "offer") /\ UNCHANGED <<done, sleep, val>>
  <2>1. Posts(1) \/ Wakes(1)
    BY <1>5, SignalPoints, SemaphoreNames
  <2>2. Goes("estimator", "signal", "offer")
    BY <1>5, GoToPoints, ElementFacts
  <2> QED BY <1>1, <1>2, <1>5, <2>1, <2>2, FirstKept DEF EstimatorSteps
<1>6. CASE /\ pc["estimator"] = "offer" /\ Wait("estimator", "est_empty")
           /\ GoTo("estimator", "announce") /\ UNCHANGED <<done, sleep, val, estimates>>
  <2>1. Takes(3) \/ Blocks(3)
    BY <1>1, <1>6, WaitPoints, SemaphoreNames
  <2>2. Goes("estimator", "offer", "announce")
    BY <1>6, GoToPoints, ElementFacts
  <2> QED BY <1>2, <1>6, <2>1, <2>2, FirstKept DEF EstimatorSteps
<1>7. CASE /\ pc["estimator"] = "announce" /\ Signal("est_full")
           /\ GoTo("estimator", "sleep") /\ UNCHANGED <<done, sleep, val, estimates>>
  <2>1. Posts(4) \/ Wakes(4)
    BY <1>7, SignalPoints, SemaphoreNames
  <2>2. Goes("estimator", "announce", "sleep")
    BY <1>7, GoToPoints, ElementFacts
  <2> QED BY <1>1, <1>2, <1>7, <2>1, <2>2, FirstKept DEF EstimatorSteps
<1>8. CASE GoesToSleep("estimator") /\ UNCHANGED <<semVars, done, val, estimates>>
  <2>1. Goes("estimator", "sleep", "wait")
    BY <1>8, GoToPoints, ElementFacts DEF GoesToSleep
  <2> QED BY <1>2, <1>8, <2>1, FirstKept, SemsKept DEF EstimatorSteps
<1> QED BY <1>3, <1>4, <1>5, <1>6, <1>7, <1>8 DEF Estimator, Rewritten

LEMMA LlmPoints ==
  ASSUME NObjects = 4, TypeInv, QueueInv, MayRun("llm"), Llm
  PROVE  LlmSteps
<1>1. waiters[4] = <<>>
  BY Turn
<1>2. UNCHANGED <<i, raw, val, First, estimates>>
  BY FirstKept DEF Llm, Prompt, Forward, Token, Respond, dataVars
<1>3. CASE /\ pc["llm"] = "wait" /\ Wait("llm", "est_full") /\ GoTo("llm", "time")
           /\ UNCHANGED <<done, prompt, prompts>>
  <2>1. Takes(4) \/ Blocks(4)
    BY <1>1, <1>3, WaitPoints, SemaphoreNames
  <2>2. Goes("llm", "wait", "time")
    BY <1>3, GoToPoints, ElementFacts
  <2> QED BY <1>2, <1>3, <2>1, <2>2 DEF LlmSteps
<1>4. CASE /\ pc["llm"] = "time" /\ GoTo("llm", "work") /\ prompt' = EmptyPrompt
           /\ UNCHANGED <<semVars, done, prompts>>
  <2>1. Goes("llm", "time", "work")
    BY <1>4, GoToPoints, ElementFacts
  <2> QED BY <1>1, <1>2, <1>4, <2>1, SemsKept DEF LlmSteps
<1>5. ASSUME NEW f \in Field, Works("llm", Named, f), NextChar(f) = End,
             IF done["llm"] = 3 THEN GoTo("llm", "forward") ELSE UNCHANGED pc,
             UNCHANGED <<semVars, prompt, prompts>>
      PROVE  LlmSteps
  <2>1. Does("llm", "forward") /\ f = Current
    BY <1>5, WorksPoints, ElementFacts DEF Current
  <2> QED BY <1>1, <1>2, <1>5, <2>1, SemsKept DEF LlmSteps
<1>6. CASE Prompt
  <2>1. done["llm"] \in 0..3
    BY ElementFacts DEF TypeInv, PipelineTypeOK
  <2>2. UNCHANGED prompts
    BY <1>6 DEF Prompt
  <2>3. ASSUME NEW f \in Field, Works("llm", Named, f), NextChar(f) = End,
               IF done["llm"] < 3 THEN UNCHANGED <<pc, generateVars>>
               ELSE GoTo("llm", "forward"), UNCHANGED <<semVars, prompt>>
        PROVE  LlmSteps
    <3>1. IF done["llm"] = 3 THEN GoTo("llm", "forward") ELSE UNCHANGED pc
      BY <2>1, <2>3
    <3> QED BY <1>5, <2>2, <2>3, <3>1
  <2>4. ASSUME NEW f \in Field, f = Current, NextChar(f) # End, pc["llm"] = "work",
               prompt' = [prompt EXCEPT ![f] = Append(prompt[f], NextChar(f))],
               UNCHANGED <<semVars, pc, done>>
        PROVE  LlmSteps
    BY <1>1, <1>2, <2>2, <2>4, SemsKept DEF LlmSteps, Copies
  <2> QED BY <1>3, <1>4, <1>6, <2>2, <2>3, <2>4 DEF Prompt, Current
<1>7. CASE Forward \/ Token
  <2>1. UNCHANGED <<semVars, done, prompt, prompts>>
    BY <1>7 DEF Forward, Token, dataVars
  <2>2. CASE Forward
    <3>1. pc["llm"] = "forward" /\ (GoTo("llm", "token") \/ UNCHANGED pc)
      BY <2>2 DEF Forward
    <3>2. \E to \in {"forward", "token"} : Goes("llm", "forward", to)
      BY <3>1, GoToPoints, ElementFacts DEF Goes
    <3> QED BY <1>2, <2>1, <3>2, SemsKept DEF LlmSteps
  <2>3. CASE Token
    <3>1. pc["llm"] = "token" /\ (GoTo("llm", "signal") \/ GoTo("llm", "forward"))
      BY <2>3 DEF Token
    <3>2. \E to \in {"forward", "signal"} : Goes("llm", "token", to)
      BY <3>1, GoToPoints, ElementFacts
    <3> QED BY <1>2, <2>1, <3>2, SemsKept DEF LlmSteps
  <2> QED BY <1>7, <2>2, <2>3
<1>8. CASE Respond
  <2>1. UNCHANGED <<done, prompt>>
    BY <1>8 DEF Respond, dataVars
  <2>2. CASE /\ pc["llm"] = "signal" /\ Signal("est_empty")
             /\ prompts' = NextIndex(prompts) /\ GoTo("llm", "sleep")
    <3>1. Posts(3) \/ Wakes(3)
      BY <2>2, SignalPoints, SemaphoreNames
    <3>2. Goes("llm", "signal", "sleep")
      BY <2>2, GoToPoints, ElementFacts
    <3> QED BY <1>1, <1>2, <2>1, <2>2, <3>1, <3>2 DEF LlmSteps
  <2>3. CASE GoesToSleep("llm") /\ UNCHANGED <<semVars, prompts>>
    <3>1. Goes("llm", "sleep", "wait")
      BY <2>3, GoToPoints, ElementFacts DEF GoesToSleep
    <3> QED BY <1>2, <2>1, <2>3, <3>1, SemsKept DEF LlmSteps
  <2> QED BY <1>8, <2>2, <2>3 DEF Respond
<1> QED BY <1>6, <1>7, <1>8 DEF Llm

DataOK ==
  /\ \A t \in Thread : done[t] \in 0..3
  /\ i \in Index /\ estimates \in Index /\ prompts \in Index
  /\ \A f \in Field : raw[f] \in Index \cup {Nothing} /\ Len(prompt[f]) \in Nat

LEMMA DataKept == TypeInv => DataOK
BY DEF TypeInv, PipelineTypeOK, DataOK

LEMMA ThreeThreads ==
  /\ "sensor" \in Thread /\ "estimator" \in Thread /\ "llm" \in Thread
  /\ \A t \in Thread : t = "sensor" \/ t = "estimator" \/ t = "llm"
BY DEF Thread

\* Who waits for a semaphore has done nothing yet of what it waits for.
LEMMA QueueStep ==
  ASSUME NObjects = 4, DataOK, QueueInv, PlaceInv,
         SensorSteps \/ EstimatorSteps \/ LlmSteps
  PROVE  QueueInv' /\ PlaceInv'
<1>0. Object = 1..4 /\ \A o \in 1..4 : o = 1 \/ o = 2 \/ o = 3 \/ o = 4
  BY Handles
<1>1. /\ BlockedAt[1] = "work" /\ BlockedAt[2] = "work"
      /\ BlockedAt[3] = "announce" /\ BlockedAt[4] = "time"
  BY DEF BlockedAt
<1>2. PlaceInv'
  <2>1. CASE SensorSteps
    BY <2>1, ThreeThreads DEF DataOK, PlaceInv, SensorSteps, Goes, Does
  <2>2. CASE EstimatorSteps
    BY <2>2, ThreeThreads DEF DataOK, PlaceInv, EstimatorSteps, Goes, Does
  <2>3. CASE LlmSteps
    BY <2>3, ThreeThreads DEF DataOK, PlaceInv, LlmSteps, Copies, Goes, Does
  <2> QED BY <2>1, <2>2, <2>3
<1>3. ASSUME NEW o \in 1..4, waiters'[o] # <<>>
      PROVE  /\ waiters'[o] = <<WaiterOf[o]>> /\ value'[o] = 0
             /\ pc'[WaiterOf[o]] = BlockedAt[o] /\ done'[WaiterOf[o]] = 0
  <2>1. /\ waiters[o] # <<>> => waiters[o] = <<WaiterOf[o]>> /\ value[o] = 0
        /\ waiters[o] # <<>> => /\ pc[WaiterOf[o]] = BlockedAt[o]
                                /\ done[WaiterOf[o]] = 0
    BY <1>0 DEF QueueInv
  <2>2. CASE SensorSteps
    BY <1>0, <1>1, <1>3, <2>1, <2>2, SemaphoreNames, ThreeThreads
       DEF DataOK, PlaceInv, SensorSteps, Goes, Does, Takes, Blocks, Posts, Wakes,
           Others, Same, SemsSame
  <2>3. CASE EstimatorSteps
    BY <1>0, <1>1, <1>3, <2>1, <2>3, SemaphoreNames, ThreeThreads
       DEF DataOK, PlaceInv, EstimatorSteps, Goes, Does, Takes, Blocks, Posts, Wakes,
           Others, Same, SemsSame
  <2>4. CASE LlmSteps
    BY <1>0, <1>1, <1>3, <2>1, <2>4, SemaphoreNames, ThreeThreads
       DEF DataOK, PlaceInv, LlmSteps, Copies, Goes, Does, Takes, Blocks, Posts, Wakes,
           Others, Same, SemsSame
  <2> QED BY <2>2, <2>3, <2>4
<1> QED BY <1>0, <1>2, <1>3 DEF QueueInv

\* The first baton: the right to the sensor's variables is with the semaphore
\* raw_empty, with the sensor, with raw_full or with the estimator.
SensorHas == pc["sensor"] \in {"work", "signal"} /\ waiters[1] = <<>>
EstimatorHas == pc["estimator"] \in {"work", "signal"} /\ waiters[2] = <<>>
SensorNext == IF pc["sensor"] = "sleep" THEN NextIndex(i) ELSE i
DoneOf(t, n) == pc[t] # "work" \/ n <= done[t]

OneOf(a, b, c, d) ==
  /\ a \/ b \/ c \/ d
  /\ ~(a /\ b) /\ ~(a /\ c) /\ ~(a /\ d) /\ ~(b /\ c) /\ ~(b /\ d) /\ ~(c /\ d)

RawBaton == OneOf(value[1] = 1, SensorHas, value[2] = 1, EstimatorHas)

RawInv ==
  /\ RawBaton
  /\ value[1] = 1 => SensorNext = estimates
  /\ SensorHas =>
       /\ i = estimates
       /\ \A n \in 1..4 : DoneOf("sensor", n) => In(Measured, raw)[n] = estimates
  /\ value[2] = 1 \/ EstimatorHas =>
       /\ \A n \in 1..4 : In(Measured, raw)[n] = estimates
       /\ SensorNext = NextIndex(estimates)
  /\ EstimatorHas => \A n \in 1..4 :
       DoneOf("estimator", n) => In(Classified, First)[n] = estimates

LEMMA RawAll ==
  ASSUME \A n \in 1..4 : In(Measured, raw)[n] = estimates
  PROVE  \A f \in Field : raw[f] = estimates
BY Orders DEF In

LEMMA ValAll ==
  ASSUME \A n \in 1..4 : In(Classified, First)[n] = estimates
  PROVE  \A f \in Field : First[f] = estimates
BY Orders DEF In

LEMMA RawSensor ==
  ASSUME DataOK, QueueInv, PlaceInv, NObjects = 4, RawInv, SensorSteps
  PROVE  RawInv'
<1>0. /\ Object = 1..4
      /\ UNCHANGED <<val, First, estimates>>
      /\ pc'["estimator"] = pc["estimator"] /\ done'["estimator"] = done["estimator"]
  BY Handles, ThreeThreads DEF SensorSteps, Goes, Does
<1>1. waiters[2] # <<>> => /\ waiters[2] = <<"estimator">> /\ value[2] = 0
                           /\ pc["estimator"] = "work" /\ done["estimator"] = 0
  BY <1>0, SemaphoreNames DEF QueueInv, BlockedAt
<1>2. CASE /\ Goes("sensor", "wait", "work") /\ (Takes(1) \/ Blocks(1))
           /\ UNCHANGED <<done, i, raw>>
  <2>1. done["sensor"] = 0
    BY <1>2, ThreeThreads DEF PlaceInv, DataOK, Goes
  <2>2. /\ ~SensorHas /\ (EstimatorHas' <=> EstimatorHas) /\ value'[2] = value[2]
        /\ SensorNext' = SensorNext /\ SensorNext = i
    BY <1>0, <1>2
       DEF SensorHas, EstimatorHas, SensorNext, Goes, Takes, Blocks, Others, Same
  <2>3. /\ Takes(1) => value[1] = 1 /\ value'[1] = 0 /\ waiters'[1] = waiters[1]
        /\ Blocks(1) => value[1] = 0 /\ value'[1] = 0 /\ waiters'[1] # <<>>
    BY OneIsSome DEF Takes, Blocks
  <2>4. SensorHas' <=> Takes(1)
    <3>1. waiters[1] = <<>>
      BY <1>2, FreePlaces DEF Goes
    <3> QED BY <1>2, <2>3, <3>1 DEF SensorHas, Goes
  <2>5. /\ \A n \in 1..4 : ~DoneOf("sensor", n)'
        /\ \A n \in 1..4 : DoneOf("estimator", n)' <=> DoneOf("estimator", n)
    BY <1>0, <1>2, <2>1 DEF DoneOf, Goes
  <2> QED BY <1>0, <1>2, <2>2, <2>3, <2>4, <2>5 DEF RawInv, RawBaton, OneOf
<1>3. CASE /\ Does("sensor", "signal") /\ waiters[1] = <<>> /\ SemsSame
           /\ Sets(In(Measured, raw'), In(Measured, raw), done["sensor"] + 1, i)
           /\ UNCHANGED i
  <2>1. /\ SensorHas /\ SensorHas' /\ (EstimatorHas' <=> EstimatorHas)
        /\ SensorNext' = i /\ SensorNext = i
        /\ value'[1] = value[1] /\ value'[2] = value[2]
    BY <1>0, <1>3
       DEF SensorHas, EstimatorHas, SensorNext, Does, SemsSame, Same
  <2>2. ASSUME NEW n \in 1..4, DoneOf("sensor", n)'
        PROVE  In(Measured, raw)'[n] = estimates
    <3>1. n = done["sensor"] + 1 \/ DoneOf("sensor", n)
      BY <1>3, <2>2, ThreeThreads DEF DoneOf, Does, DataOK
    <3> QED BY <1>3, <2>1, <3>1 DEF Sets, RawInv
  <2> QED BY <1>0, <1>3, <2>1, <2>2 DEF RawInv, RawBaton, OneOf
<1>4. CASE /\ Goes("sensor", "signal", "sleep") /\ waiters[1] = <<>>
           /\ (Posts(2) \/ Wakes(2)) /\ UNCHANGED <<done, i, raw>>
  <2>1. /\ SensorHas /\ ~SensorHas' /\ value'[1] = value[1]
        /\ SensorNext' = NextIndex(i)
    BY <1>4 DEF SensorHas, SensorNext, Goes, Posts, Wakes, Others, Same
  <2>2. \A n \in 1..4 : In(Measured, raw)[n] = estimates
    BY <1>4, <2>1 DEF RawInv, DoneOf, Goes
  <2>3. i = estimates /\ value[1] # 1 /\ value[2] # 1 /\ ~EstimatorHas
    BY <2>1 DEF RawInv, RawBaton, OneOf
  <2>4. CASE Posts(2)
    <3>1. value'[2] = 1 /\ ~EstimatorHas'
      BY <1>0, <2>3, <2>4 DEF EstimatorHas, Posts
    <3> QED BY <1>0, <1>4, <2>1, <2>2, <2>3, <3>1 DEF RawInv, RawBaton, OneOf
  <2>5. CASE Wakes(2)
    <3>1. /\ value'[2] # 1 /\ EstimatorHas'
          /\ \A n \in 1..4 : ~DoneOf("estimator", n)'
      BY <1>0, <1>1, <2>3, <2>5, SemaphoreNames DEF EstimatorHas, DoneOf, Wakes
    <3> QED BY <1>0, <1>4, <2>1, <2>2, <2>3, <3>1 DEF RawInv, RawBaton, OneOf
  <2> QED BY <1>4, <2>4, <2>5
<1>5. CASE /\ Goes("sensor", "sleep", "wait") /\ SemsSame
           /\ i' = NextIndex(i) /\ UNCHANGED <<done, raw>>
  <2>1. /\ ~SensorHas /\ ~SensorHas' /\ (EstimatorHas' <=> EstimatorHas)
        /\ SensorNext' = SensorNext
        /\ value'[1] = value[1] /\ value'[2] = value[2]
        /\ \A n \in 1..4 : DoneOf("estimator", n)' <=> DoneOf("estimator", n)
    BY <1>0, <1>5
       DEF SensorHas, EstimatorHas, SensorNext, DoneOf, Goes, SemsSame, Same
  <2> QED BY <1>0, <1>5, <2>1 DEF RawInv, RawBaton, OneOf
<1> QED BY <1>2, <1>3, <1>4, <1>5 DEF SensorSteps

LEMMA RawEstimator ==
  ASSUME DataOK, QueueInv, PlaceInv, NObjects = 4, RawInv, EstimatorSteps
  PROVE  RawInv'
<1>0. /\ Object = 1..4
      /\ UNCHANGED <<i, raw>>
      /\ pc'["sensor"] = pc["sensor"] /\ done'["sensor"] = done["sensor"]
      /\ SensorNext' = SensorNext
  BY Handles, ThreeThreads DEF EstimatorSteps, Goes, Does, SensorNext
<1>1. waiters[1] # <<>> => /\ waiters[1] = <<"sensor">> /\ value[1] = 0
                           /\ pc["sensor"] = "work" /\ done["sensor"] = 0
  BY <1>0, SemaphoreNames DEF QueueInv, BlockedAt
<1>2. CASE /\ Goes("estimator", "wait", "work") /\ (Takes(2) \/ Blocks(2))
           /\ UNCHANGED <<done, val, First, estimates>>
  <2>1. done["estimator"] = 0
    BY <1>2, ThreeThreads DEF PlaceInv, DataOK, Goes
  <2>2. ~EstimatorHas /\ (SensorHas' <=> SensorHas) /\ value'[1] = value[1]
    BY <1>0, <1>2 DEF SensorHas, EstimatorHas, Goes, Takes, Blocks, Others, Same
  <2>3. /\ Takes(2) => value[2] = 1 /\ value'[2] = 0 /\ waiters'[2] = waiters[2]
        /\ Blocks(2) => value[2] = 0 /\ value'[2] = 0 /\ waiters'[2] # <<>>
    BY OneIsSome DEF Takes, Blocks
  <2>4. EstimatorHas' <=> Takes(2)
    <3>1. waiters[2] = <<>>
      BY <1>2, FreePlaces DEF Goes
    <3> QED BY <1>2, <2>3, <3>1 DEF EstimatorHas, Goes
  <2>5. /\ \A n \in 1..4 : ~DoneOf("estimator", n)'
        /\ \A n \in 1..4 : DoneOf("sensor", n)' <=> DoneOf("sensor", n)
    BY <1>0, <1>2, <2>1 DEF DoneOf, Goes
  <2> QED BY <1>0, <1>2, <2>2, <2>3, <2>4, <2>5 DEF RawInv, RawBaton, OneOf
<1>3. CASE /\ Does("estimator", "signal") /\ waiters[2] = <<>> /\ SemsSame
           /\ Sets(In(Classified, First'), In(Classified, First), done["estimator"] + 1,
                   raw[Classified[done["estimator"] + 1]])
           /\ UNCHANGED estimates
  <2>1. /\ EstimatorHas /\ EstimatorHas' /\ (SensorHas' <=> SensorHas)
        /\ value'[1] = value[1] /\ value'[2] = value[2]
    BY <1>0, <1>3 DEF SensorHas, EstimatorHas, Does, SemsSame, Same
  <2>2. done["estimator"] \in 0..3
    BY ThreeThreads DEF DataOK
  <2>3. raw[Classified[done["estimator"] + 1]] = estimates
    <3>1. Classified[done["estimator"] + 1] \in Field
      BY <2>2, ElementFacts
    <3> QED BY <2>1, <3>1, RawAll DEF RawInv
  <2>4. ASSUME NEW n \in 1..4, DoneOf("estimator", n)'
        PROVE  In(Classified, First)'[n] = estimates
    <3>1. n = done["estimator"] + 1 \/ DoneOf("estimator", n)
      BY <1>3, <2>2, <2>4 DEF DoneOf, Does
    <3> QED BY <1>3, <2>1, <2>3, <3>1 DEF Sets, RawInv
  <2>5. \A n \in 1..4 : DoneOf("sensor", n)' <=> DoneOf("sensor", n)
    BY <1>0 DEF DoneOf
  <2> QED BY <1>0, <1>3, <2>1, <2>4, <2>5 DEF RawInv, RawBaton, OneOf
<1>4. CASE /\ Goes("estimator", "signal", "offer") /\ waiters[2] = <<>>
           /\ (Posts(1) \/ Wakes(1))
           /\ estimates' = NextIndex(estimates) /\ UNCHANGED <<done, val, First>>
  <2>1. EstimatorHas /\ ~EstimatorHas' /\ value'[2] = value[2]
    BY <1>4 DEF EstimatorHas, Goes, Posts, Wakes, Others, Same
  <2>2. value[1] # 1 /\ value[2] # 1 /\ ~SensorHas /\ SensorNext = NextIndex(estimates)
    BY <2>1 DEF RawInv, RawBaton, OneOf
  <2>3. CASE Posts(1)
    <3>1. value'[1] = 1 /\ ~SensorHas'
      BY <1>0, <2>2, <2>3 DEF SensorHas, Posts
    <3> QED BY <1>0, <1>4, <2>1, <2>2, <3>1 DEF RawInv, RawBaton, OneOf
  <2>4. CASE Wakes(1)
    <3>1. /\ value'[1] # 1 /\ SensorHas' /\ SensorNext = i
          /\ \A n \in 1..4 : ~DoneOf("sensor", n)'
      BY <1>0, <1>1, <2>2, <2>4, SemaphoreNames DEF SensorHas, DoneOf, Wakes, SensorNext
    <3> QED BY <1>0, <1>4, <2>1, <2>2, <3>1 DEF RawInv, RawBaton, OneOf
  <2> QED BY <1>4, <2>3, <2>4
<1>5. ASSUME /\ ~EstimatorHas /\ ~EstimatorHas' /\ Same(1) /\ Same(2)
             /\ UNCHANGED <<done, val, First, estimates>>
      PROVE  RawInv'
  <2>1. /\ SensorHas' <=> SensorHas
        /\ \A n \in 1..4 : DoneOf("sensor", n)' <=> DoneOf("sensor", n)
    BY <1>0, <1>5 DEF SensorHas, DoneOf, Same
  <2> QED BY <1>0, <1>5, <2>1 DEF RawInv, RawBaton, OneOf, Same
<1>6. CASE /\ Goes("estimator", "offer", "announce") /\ (Takes(3) \/ Blocks(3))
           /\ UNCHANGED <<done, val, First, estimates>>
  BY <1>5, <1>6 DEF EstimatorHas, Goes, Takes, Blocks, Others
<1>7. CASE /\ Goes("estimator", "announce", "sleep") /\ waiters[3] = <<>>
           /\ (Posts(4) \/ Wakes(4)) /\ UNCHANGED <<done, val, First, estimates>>
  BY <1>5, <1>7 DEF EstimatorHas, Goes, Posts, Wakes, Others
<1>8. CASE /\ Goes("estimator", "sleep", "wait") /\ SemsSame
           /\ UNCHANGED <<done, val, First, estimates>>
  BY <1>5, <1>8 DEF EstimatorHas, Goes, SemsSame
<1> QED BY <1>2, <1>3, <1>4, <1>6, <1>7, <1>8 DEF EstimatorSteps

\* The model has no part in it.
LEMMA RawLlm ==
  ASSUME RawInv, LlmSteps
  PROVE  RawInv'
<1>1. /\ UNCHANGED <<i, raw, val, First, estimates>> /\ Same(1) /\ Same(2)
      /\ \A t \in {"sensor", "estimator"} : pc'[t] = pc[t] /\ done'[t] = done[t]
  BY ThreeThreads
     DEF LlmSteps, Copies, Goes, Does, Takes, Blocks, Posts, Wakes, Others, SemsSame
<1>2. /\ SensorHas' <=> SensorHas
      /\ EstimatorHas' <=> EstimatorHas
      /\ SensorNext' = SensorNext
      /\ \A n \in 1..4 : DoneOf("sensor", n)' <=> DoneOf("sensor", n)
      /\ \A n \in 1..4 : DoneOf("estimator", n)' <=> DoneOf("estimator", n)
  BY <1>1 DEF SensorHas, EstimatorHas, SensorNext, DoneOf, Same
<1> QED BY <1>1, <1>2 DEF RawInv, RawBaton, OneOf, Same

\* The second baton: the right to give the model an estimate is with est_empty
\* or the estimator, the right to prompt with it with est_full or the model.
Announces == pc["estimator"] = "announce" /\ waiters[3] = <<>>
LlmHas == pc["llm"] \notin {"wait", "sleep"} /\ waiters[4] = <<>>
Announced(k) ==
  IF pc["estimator"] \in {"offer", "announce"} THEN NextIndex(k) = estimates
                                               ELSE k = estimates

EstInv ==
  /\ OneOf(value[3] = 1, Announces, value[4] = 1, LlmHas)
  /\ value[3] = 1 \/ Announces => Announced(prompts)
  /\ value[4] = 1 \/ LlmHas => Announced(NextIndex(prompts))

LEMMA EstSensor ==
  ASSUME EstInv, SensorSteps
  PROVE  EstInv'
<1>1. /\ UNCHANGED <<estimates, prompts>> /\ Same(3) /\ Same(4)
      /\ \A t \in {"llm", "estimator"} : pc'[t] = pc[t]
  BY ThreeThreads
     DEF SensorSteps, Goes, Does, Takes, Blocks, Posts, Wakes, Others, SemsSame
<1> QED BY <1>1 DEF EstInv, OneOf, Announces, LlmHas, Announced, Same

LEMMA EstEstimator ==
  ASSUME QueueInv, NObjects = 4, EstInv, EstimatorSteps
  PROVE  EstInv'
<1>0. /\ prompts' = prompts /\ pc'["llm"] = pc["llm"] /\ Object = 1..4
  BY Handles, ThreeThreads DEF EstimatorSteps, Goes, Does
<1>1. waiters[4] # <<>> => waiters[4] = <<"llm">> /\ value[4] = 0 /\ pc["llm"] = "time"
  BY <1>0, SemaphoreNames DEF QueueInv, BlockedAt
<1>2. ASSUME Same(3), Same(4), pc["estimator"] # "announce", pc'["estimator"] # "announce",
             Announced(prompts)' <=> Announced(prompts),
             Announced(NextIndex(prompts))' <=> Announced(NextIndex(prompts))
      PROVE  EstInv'
  BY <1>0, <1>2 DEF EstInv, OneOf, Announces, LlmHas, Same
<1>3. CASE /\ Goes("estimator", "wait", "work") /\ (Takes(2) \/ Blocks(2))
           /\ UNCHANGED <<done, val, First, estimates>>
  BY <1>0, <1>2, <1>3 DEF Goes, Takes, Blocks, Others, Announced
<1>4. CASE /\ Does("estimator", "signal") /\ SemsSame /\ UNCHANGED estimates
  BY <1>0, <1>2, <1>4 DEF Does, SemsSame, Announced
<1>5. CASE /\ Goes("estimator", "sleep", "wait") /\ SemsSame
           /\ UNCHANGED <<done, val, First, estimates>>
  BY <1>0, <1>2, <1>5 DEF Goes, SemsSame, Announced
<1>6. CASE /\ Goes("estimator", "signal", "offer") /\ (Posts(1) \/ Wakes(1))
           /\ estimates' = NextIndex(estimates)
  <2>1. Same(3) /\ Same(4) /\ pc["estimator"] = "signal" /\ pc'["estimator"] = "offer"
    BY <1>6 DEF Goes, Posts, Wakes, Others
  <2>2. /\ Announced(prompts) => Announced(prompts)'
        /\ Announced(NextIndex(prompts)) => Announced(NextIndex(prompts))'
    BY <1>0, <1>6, <2>1 DEF Announced
  <2> QED BY <1>0, <2>1, <2>2 DEF EstInv, OneOf, Announces, LlmHas, Same
<1>7. CASE /\ Goes("estimator", "offer", "announce") /\ (Takes(3) \/ Blocks(3))
           /\ UNCHANGED <<done, val, First, estimates>>
  <2>1. /\ Same(4) /\ ~Announces /\ waiters[3] = <<>>
        /\ pc["estimator"] = "offer" /\ pc'["estimator"] = "announce"
        /\ LlmHas' <=> LlmHas
    BY <1>0, <1>7, FreePlaces
       DEF Goes, Takes, Blocks, Others, Announces, LlmHas, Same
  <2>2. /\ Announced(prompts)' <=> Announced(prompts)
        /\ Announced(NextIndex(prompts))' <=> Announced(NextIndex(prompts))
    BY <1>0, <1>7, <2>1 DEF Announced
  <2>3. \/ value[3] = 1 /\ value'[3] = 0 /\ Announces'
        \/ value[3] = 0 /\ value'[3] = 0 /\ ~Announces'
    <3>1. /\ Takes(3) => value[3] = 1 /\ value'[3] = 0 /\ waiters'[3] = waiters[3]
          /\ Blocks(3) => value[3] = 0 /\ value'[3] = 0 /\ waiters'[3] # <<>>
      BY OneIsSome DEF Takes, Blocks
    <3> QED BY <1>7, <2>1, <3>1 DEF Announces
  <2> QED BY <2>1, <2>2, <2>3 DEF EstInv, OneOf, Same
<1>8. CASE /\ Goes("estimator", "announce", "sleep") /\ waiters[3] = <<>>
           /\ (Posts(4) \/ Wakes(4)) /\ UNCHANGED <<done, val, First, estimates>>
  <2>1. /\ Same(3) /\ Announces /\ ~Announces'
        /\ pc["estimator"] = "announce" /\ pc'["estimator"] = "sleep"
    BY <1>8 DEF Goes, Posts, Wakes, Others, Announces
  <2>2. value[3] # 1 /\ value[4] # 1 /\ ~LlmHas /\ Announced(prompts)
    BY <2>1 DEF EstInv, OneOf
  <2>3. Announced(NextIndex(prompts))'
    BY <1>0, <1>8, <2>1, <2>2 DEF Announced
  <2>4. \/ value'[4] = 1 /\ ~LlmHas'
        \/ value'[4] # 1 /\ LlmHas'
    <3>1. /\ Posts(4) => waiters[4] = <<>> /\ waiters'[4] = <<>> /\ value'[4] = 1
          /\ Wakes(4) => /\ waiters[4] # <<>> /\ waiters'[4] = <<>>
                        /\ value'[4] = value[4]
      BY OneIsSome DEF Posts, Wakes
    <3> QED BY <1>0, <1>1, <1>8, <2>2, <3>1 DEF LlmHas
  <2> QED BY <2>1, <2>2, <2>3, <2>4 DEF EstInv, OneOf, Same
<1> QED BY <1>3, <1>4, <1>5, <1>6, <1>7, <1>8 DEF EstimatorSteps

LEMMA EstLlm ==
  ASSUME QueueInv, PlaceInv, NObjects = 4, EstInv, LlmSteps
  PROVE  EstInv'
<1>0. estimates' = estimates /\ pc'["estimator"] = pc["estimator"] /\ Object = 1..4
  BY Handles, ThreeThreads DEF LlmSteps, Copies, Goes, Does
<1>1. waiters[3] # <<>> => /\ waiters[3] = <<"estimator">> /\ value[3] = 0
                           /\ pc["estimator"] = "announce"
  BY <1>0, SemaphoreNames DEF QueueInv, BlockedAt
<1>2. ASSUME SemsSame, prompts' = prompts,
             pc["llm"] \in {"wait", "sleep"} <=> pc'["llm"] \in {"wait", "sleep"}
      PROVE  EstInv'
  BY <1>0, <1>2 DEF EstInv, OneOf, Announces, LlmHas, Announced, SemsSame, Same
<1>3. CASE /\ Goes("llm", "wait", "time") /\ (Takes(4) \/ Blocks(4))
           /\ UNCHANGED <<done, prompt, prompts>>
  <2>1. /\ Same(3) /\ ~LlmHas /\ waiters[4] = <<>> /\ pc'["llm"] = "time"
        /\ Announces' <=> Announces
    BY <1>0, <1>3, FreePlaces
       DEF Goes, Takes, Blocks, Others, Announces, LlmHas, Same
  <2>2. \/ value[4] = 1 /\ value'[4] = 0 /\ LlmHas'
        \/ value[4] = 0 /\ value'[4] = 0 /\ ~LlmHas'
    <3>1. /\ Takes(4) => value[4] = 1 /\ value'[4] = 0 /\ waiters'[4] = waiters[4]
          /\ Blocks(4) => value[4] = 0 /\ value'[4] = 0 /\ waiters'[4] # <<>>
      BY OneIsSome DEF Takes, Blocks
    <3>2. Takes(4) \/ Blocks(4)
      BY <1>3
    <3> QED BY <2>1, <3>1, <3>2 DEF LlmHas
  <2>3. /\ Announced(prompts)' <=> Announced(prompts)
        /\ Announced(NextIndex(prompts))' <=> Announced(NextIndex(prompts))
    BY <1>0, <1>3 DEF Announced
  <2> QED BY <2>1, <2>2, <2>3 DEF EstInv, OneOf, Same
<1>4. CASE /\ Goes("llm", "signal", "sleep") /\ waiters[4] = <<>>
           /\ (Posts(3) \/ Wakes(3)) /\ prompts' = NextIndex(prompts)
  <2>1. Same(4) /\ LlmHas /\ ~LlmHas'
    BY <1>4 DEF Goes, Posts, Wakes, Others, LlmHas
  <2>2. /\ value[3] # 1 /\ value[4] # 1 /\ ~Announces /\ Announced(NextIndex(prompts))
    BY <2>1 DEF EstInv, OneOf
  <2>3. Announced(prompts)'
    BY <1>0, <1>4, <2>2 DEF Announced
  <2>4. \/ value'[3] = 1 /\ ~Announces'
        \/ value'[3] # 1 /\ Announces'
    <3>1. /\ Posts(3) => waiters[3] = <<>> /\ waiters'[3] = <<>> /\ value'[3] = 1
          /\ Wakes(3) => /\ waiters[3] # <<>> /\ waiters'[3] = <<>>
                        /\ value'[3] = value[3]
      BY OneIsSome DEF Posts, Wakes
    <3>2. CASE Posts(3)
      <4>1. pc["estimator"] # "announce"
        BY <2>2, <3>1, <3>2 DEF Announces
      <4> QED BY <1>0, <3>1, <3>2, <4>1 DEF Announces
    <3>3. CASE Wakes(3)
      <4>1. value'[3] = 0 /\ pc'["estimator"] = "announce" /\ waiters'[3] = <<>>
        BY <1>0, <1>1, <3>1, <3>3
      <4> QED BY <4>1 DEF Announces
    <3> QED BY <1>4, <3>2, <3>3
  <2> QED BY <2>1, <2>2, <2>3, <2>4 DEF EstInv, OneOf, Same
<1> QED BY <1>2, <1>3, <1>4 DEF LlmSteps, Copies, Goes, Does

\* The variables of the estimator are of the estimate before the next one, but
\* for those it has renewed; before the first estimate they are of none.
FirstEstimate ==
  /\ estimates = 0 /\ pc["estimator"] \in {"wait", "work", "signal"}
  /\ value[4] = 0 /\ ~LlmHas
Last(v) == v \in Index /\ NextIndex(v) = estimates
ValAt(n) == IF EstimatorHas /\ DoneOf("estimator", n)
            THEN In(Classified, First)[n] = estimates
            ELSE Last(In(Classified, First)[n])
ValInv == FirstEstimate \/ \A n \in 1..4 : ValAt(n)

LEMMA ValSame ==
  ASSUME ValInv, UNCHANGED <<val, First, estimates>>, LlmHas' <=> LlmHas, value'[4] = value[4],
         pc["estimator"] \in {"wait", "work", "signal"} =>
           pc'["estimator"] \in {"wait", "work", "signal"},
         \A n \in 1..4 : (EstimatorHas /\ DoneOf("estimator", n))' <=>
                           (EstimatorHas /\ DoneOf("estimator", n))
  PROVE  ValInv'
<1>1. CASE FirstEstimate
  BY <1>1 DEF FirstEstimate, ValInv
<1>2. CASE \A n \in 1..4 : ValAt(n)
  BY <1>2 DEF ValAt, ValInv, Last
<1> QED BY <1>1, <1>2 DEF ValInv

LEMMA ValSensor ==
  ASSUME QueueInv, NObjects = 4, ValInv, SensorSteps
  PROVE  ValInv'
<1>0. /\ UNCHANGED <<val, First, estimates>> /\ Same(4) /\ Object = 1..4
      /\ \A t \in {"llm", "estimator"} : pc'[t] = pc[t] /\ done'[t] = done[t]
      /\ Same(2) \/ Wakes(2) \/ (Posts(2) /\ waiters'[2] = waiters[2])
  BY Handles, ThreeThreads
     DEF SensorSteps, Goes, Does, Takes, Blocks, Posts, Wakes, Others, SemsSame
<1>1. LlmHas' <=> LlmHas
  BY <1>0 DEF LlmHas, Same
<1>2. ASSUME NEW n \in 1..4
      PROVE  (EstimatorHas /\ DoneOf("estimator", n))' <=>
               (EstimatorHas /\ DoneOf("estimator", n))
  <2>1. CASE waiters'[2] = waiters[2]
    BY <1>0, <2>1 DEF EstimatorHas, DoneOf
  <2>2. CASE Wakes(2)
    <3>1. waiters[2] = <<"estimator">> /\ waiters[2] # <<>>
      BY <2>2, SemaphoreNames DEF Wakes
    <3>2. pc["estimator"] = "work" /\ done["estimator"] = 0
      <4>1. WaiterOf[2] = "estimator" /\ BlockedAt[2] = "work" /\ 2 \in Object
        BY <1>0, SemaphoreNames DEF BlockedAt
      <4>2. pc[WaiterOf[2]] = BlockedAt[2] /\ done[WaiterOf[2]] = 0
        BY <3>1, <4>1 DEF QueueInv
      <4> QED BY <4>1, <4>2
    <3> QED BY <1>0, <3>2 DEF DoneOf
  <2> QED BY <1>0, <2>1, <2>2 DEF Same
<1> QED BY <1>0, <1>1, <1>2, ValSame DEF Same

LEMMA ValEstimator ==
  ASSUME DataOK, QueueInv, PlaceInv, NObjects = 4, RawInv, ValInv, EstimatorSteps
  PROVE  ValInv'
<1>0. pc'["llm"] = pc["llm"] /\ done["estimator"] \in 0..3
  BY ThreeThreads DEF EstimatorSteps, Goes, Does, DataOK
<1>1. ASSUME Same(4), ~EstimatorHas, pc["estimator"] \in {"wait", "work", "signal"} =>
               pc'["estimator"] \in {"wait", "work", "signal"},
             EstimatorHas' => \A n \in 1..4 : ~DoneOf("estimator", n)',
             UNCHANGED <<val, First, estimates>>
      PROVE  ValInv'
  BY <1>0, <1>1, ValSame DEF LlmHas, Same
<1>2. CASE /\ Goes("estimator", "wait", "work") /\ (Takes(2) \/ Blocks(2))
           /\ UNCHANGED <<done, val, First, estimates>>
  <2>1. done["estimator"] = 0 /\ done'["estimator"] = 0
    BY <1>0, <1>2, ThreeThreads DEF PlaceInv, Goes
  <2> QED BY <1>1, <1>2, <2>1
          DEF EstimatorHas, DoneOf, Goes, Takes, Blocks, Others
<1>3. CASE /\ Does("estimator", "signal") /\ waiters[2] = <<>> /\ SemsSame
           /\ Sets(In(Classified, First'), In(Classified, First), done["estimator"] + 1,
                   raw[Classified[done["estimator"] + 1]])
           /\ UNCHANGED estimates
  <2>1. /\ EstimatorHas /\ EstimatorHas' /\ Same(4) /\ (LlmHas' <=> LlmHas)
        /\ pc["estimator"] = "work" /\ pc'["estimator"] \in {"work", "signal"}
    BY <1>0, <1>3 DEF EstimatorHas, Does, SemsSame, LlmHas, Same
  <2>2. CASE FirstEstimate
    BY <1>3, <2>1, <2>2 DEF FirstEstimate, ValInv, Same
  <2>3. CASE \A n \in 1..4 : ValAt(n)
    <3>1. raw[Classified[done["estimator"] + 1]] = estimates
      <4>1. Classified[done["estimator"] + 1] \in Field
        BY <1>0, ElementFacts
      <4> QED BY <2>1, <4>1, RawAll DEF RawInv
    <3>2. ASSUME NEW n \in 1..4
          PROVE  ValAt(n)'
      <4>1. CASE n = done["estimator"] + 1
        <5>1. DoneOf("estimator", n)'
          BY <1>0, <1>3, <4>1 DEF DoneOf, Does
        <5> QED BY <1>3, <2>1, <3>1, <4>1, <5>1 DEF Sets, ValAt
      <4>2. CASE n # done["estimator"] + 1
        <5>1. DoneOf("estimator", n)' <=> DoneOf("estimator", n)
          BY <1>0, <1>3, <4>2 DEF DoneOf, Does
        <5> QED BY <1>3, <2>1, <2>3, <4>2, <5>1 DEF Sets, ValAt, Last
      <4> QED BY <4>1, <4>2
    <3> QED BY <3>2 DEF ValInv
  <2> QED BY <2>2, <2>3 DEF ValInv
<1>4. CASE /\ Goes("estimator", "signal", "offer") /\ waiters[2] = <<>>
           /\ estimates' = NextIndex(estimates) /\ UNCHANGED <<done, val, First>>
  <2>1. EstimatorHas /\ ~EstimatorHas' /\ \A n \in 1..4 : DoneOf("estimator", n)
    BY <1>4 DEF EstimatorHas, DoneOf, Goes
  <2>2. \A n \in 1..4 : In(Classified, First)[n] = estimates
    BY <2>1 DEF RawInv
  <2>3. estimates \in Index
    BY DEF DataOK
  <2> QED BY <1>4, <2>1, <2>2, <2>3 DEF ValInv, ValAt, Last
<1>5. ASSUME pc["estimator"] \in {"offer", "announce", "sleep"}, ~EstimatorHas',
             UNCHANGED <<val, First, estimates>>
      PROVE  ValInv'
  BY <1>5 DEF ValInv, ValAt, Last, FirstEstimate, EstimatorHas
<1>6. CASE /\ Goes("estimator", "offer", "announce") /\ UNCHANGED <<val, First, estimates>>
  BY <1>5, <1>6 DEF Goes, EstimatorHas
<1>7. CASE /\ Goes("estimator", "announce", "sleep") /\ UNCHANGED <<val, First, estimates>>
  BY <1>5, <1>7 DEF Goes, EstimatorHas
<1>8. CASE /\ Goes("estimator", "sleep", "wait") /\ UNCHANGED <<val, First, estimates>>
  BY <1>5, <1>8 DEF Goes, EstimatorHas
<1> QED BY <1>2, <1>3, <1>4, <1>6, <1>7, <1>8 DEF EstimatorSteps

LEMMA ValLlm ==
  ASSUME PlaceInv, NObjects = 4, QueueInv, EstInv, ValInv, LlmSteps
  PROVE  ValInv'
<1>0. /\ UNCHANGED <<val, First, estimates>> /\ Same(2)
      /\ pc'["estimator"] = pc["estimator"] /\ done'["estimator"] = done["estimator"]
  BY ThreeThreads
     DEF LlmSteps, Copies, Goes, Does, Takes, Blocks, Posts, Wakes, Others, SemsSame
<1>1. \A n \in 1..4 : (EstimatorHas /\ DoneOf("estimator", n))' <=>
                        (EstimatorHas /\ DoneOf("estimator", n))
  BY <1>0 DEF EstimatorHas, DoneOf, Same
<1>2. CASE \A n \in 1..4 : ValAt(n)
  BY <1>0, <1>1, <1>2 DEF ValAt, ValInv, Last
<1>3. CASE FirstEstimate
  <2>1. value[4] = 0 /\ ~LlmHas
    BY <1>3 DEF FirstEstimate
  <2>2. value'[4] = 0 /\ ~LlmHas'
    <3>1. CASE Goes("llm", "wait", "time") /\ (Takes(4) \/ Blocks(4))
      <4>1. /\ Takes(4) => value[4] = 1
            /\ Blocks(4) => value'[4] = 0 /\ waiters'[4] # <<>>
        <5>1. <<WaiterOf[4]>> # <<>>
          OBVIOUS
        <5> QED BY <5>1 DEF Takes, Blocks
      <4> QED BY <2>1, <3>1, <4>1 DEF LlmHas
    <3>2. CASE Goes("llm", "sleep", "wait") /\ SemsSame
      BY <2>1, <3>2 DEF LlmHas, Goes, SemsSame, Same
    <3>3. CASE \/ \E to \in {"forward", "token"} : Goes("llm", "forward", to)
               \/ \E to \in {"forward", "signal"} : Goes("llm", "token", to)
      BY <2>1, <3>3, FreePlaces DEF LlmHas, Goes
    <3> QED BY <2>1, <3>1, <3>2, <3>3 DEF LlmSteps, Copies, LlmHas, Goes, Does
  <2> QED BY <1>0, <1>3, <2>2 DEF FirstEstimate, ValInv
<1> QED BY <1>2, <1>3 DEF ValInv

\* The estimator has made an estimate that the model has not been told of, or is
\* in the midst of making one.
Ahead == pc["estimator"] \in {"signal", "offer", "announce"}
MidWork == EstimatorHas /\ pc["estimator"] = "work" /\ done["estimator"] > 0

\* The estimate that the model is told of, and the one it may be overtaken by.
Told == prompts
Newer == NextIndex(prompts)

LEMMA ToldFacts ==
  ASSUME DataOK
  PROVE  Told \in Index /\ Newer \in Index /\ Told # Newer
<1>1. Told \in Index
  BY DEF DataOK, Told
<1>2. \A k \in Index : k # NextIndex(k)
  BY Bounds DEF Index, NextIndex
<1> QED BY <1>1, <1>2, ElementFacts DEF Told, Newer

\* What the model may find while it makes a prompt.
LEMMA FirstOf ==
  ASSUME DataOK, QueueInv, NObjects = 4, EstInv, ValInv, LlmHas, NEW f \in Field
  PROVE  /\ First[f] \in {Told, Newer}
         /\ Ahead => First[f] = Newer
         /\ ~Ahead /\ ~MidWork => First[f] = Told
<1>1. PICK n \in 1..4 : Classified[n] = f
  BY Orders
<1>2. ValAt(n) /\ In(Classified, First)[n] = First[f]
  BY <1>1 DEF ValInv, FirstEstimate, In
<1>3. Announced(Newer) /\ Told \in Index /\ Newer \in Index
  BY ToldFacts DEF EstInv, Newer
<1>4. CASE EstimatorHas /\ DoneOf("estimator", n)
  <2>1. First[f] = estimates
    BY <1>2, <1>4 DEF ValAt
  <2>2. Newer = estimates
    BY <1>3, <1>4 DEF Announced, EstimatorHas
  <2>3. Ahead \/ MidWork
    <3>1. n <= done["estimator"] /\ done["estimator"] \in 0..3 => done["estimator"] > 0
      OBVIOUS
    <3> QED BY <1>4, <3>1, ThreeThreads DEF DoneOf, DataOK, Ahead, MidWork, EstimatorHas
  <2> QED BY <2>1, <2>2, <2>3
<1>5. CASE ~(EstimatorHas /\ DoneOf("estimator", n))
  <2>1. Last(First[f])
    BY <1>2, <1>5 DEF ValAt
  <2>2. pc["estimator"] # "signal"
    BY <1>5, FreePlaces DEF EstimatorHas, DoneOf
  <2>3. CASE Ahead
    <3>1. NextIndex(Newer) = estimates
      BY <1>3, <2>2, <2>3 DEF Announced, Ahead
    <3> QED BY <1>3, <2>1, <2>3, <3>1, NextIndexFacts DEF Last
  <2>4. CASE ~Ahead
    <3>1. NextIndex(Told) = estimates
      BY <1>3, <2>4 DEF Announced, Ahead, Newer, Told
    <3> QED BY <1>3, <2>1, <2>4, <3>1, NextIndexFacts DEF Last
  <2> QED BY <2>3, <2>4
<1> QED BY <1>4, <1>5

\* Every string is of the one estimate that its first character is of.
WholeInv == \A f \in Field : Rest(val[f], 0, {First[f]})

LEMMA RewritesPoints ==
  ASSUME NEW S, val \in [Field -> S], NEW g \in Field, NEW x, Rewrites(g, x)
  PROVE  /\ \E n \in 1..Longest : val'[g] = Rewritten(val[g], x, n)
         /\ \A f \in Field : f # g => val'[f] = val[f] /\ First'[f] = First[f]
         /\ First'[g] = x
<1>1. PICK n \in 1..Longest : val' = [val EXCEPT ![g] = Rewritten(val[g], x, n)]
  BY DEF Rewrites
<1>2. val'[g] = Rewritten(val[g], x, n) /\ \A f \in Field : f # g => val'[f] = val[f]
  BY <1>1
<1>3. \A f \in Field : First[f] = val[f][1] /\ First'[f] = val'[f][1]
  BY DEF First
<1>4. Rewritten(val[g], x, n)[1] = x
  BY RestNew
<1> QED BY <1>2, <1>3, <1>4

LEMMA WholeStep ==
  ASSUME TypeInv, WholeInv, UNCHANGED <<val, First>> \/ EstimatorSteps
  PROVE  WholeInv'
<1>1. CASE UNCHANGED <<val, First>>
  BY <1>1 DEF WholeInv
<1>2. ASSUME NEW g \in Field, NEW x, Rewrites(g, x)
      PROVE  WholeInv'
  <2>0. val \in [Field -> [Cell -> Index \cup {End, Unknown}]]
    BY DEF TypeInv, PipelineTypeOK
  <2>1. /\ \E n \in 1..Longest : val'[g] = Rewritten(val[g], x, n)
        /\ \A f \in Field : f # g => val'[f] = val[f] /\ First'[f] = First[f]
        /\ First'[g] = x
    BY <1>2, <2>0, RewritesPoints
  <2>2. Rest(val'[g], 0, {First'[g]})
    BY <2>1, RestNew
  <2>3. ASSUME NEW f \in Field, f # g
        PROVE  Rest(val'[f], 0, {First'[f]})
    BY <2>1, <2>3 DEF WholeInv
  <2> QED BY <2>2, <2>3 DEF WholeInv
<1>3. CASE EstimatorSteps
  <2>1. Classified[done["estimator"] + 1] \in Field
    <3>1. done["estimator"] \in 0..3
      BY ElementFacts DEF TypeInv, PipelineTypeOK
    <3>2. done["estimator"] + 1 \in 1..4
      BY <3>1
    <3> QED BY <3>2, ElementFacts
  <2>2. CASE UNCHANGED <<val, First>>
    BY <1>1, <2>2
  <2>3. CASE Rewrites(Classified[done["estimator"] + 1],
                      raw[Classified[done["estimator"] + 1]])
    BY <1>2, <2>1, <2>3
  <2> QED BY <1>3, <2>2, <2>3 DEF EstimatorSteps
<1> QED BY <1>1, <1>3

\* What a prompt has, and what the copy under way is still to find.
Prompting == pc["llm"] \in {"work", "forward", "token", "signal"}
Taken == Len(prompt[Current])

PromptInv == Prompting =>
  /\ \A f \in Field :
       /\ Len(prompt[f]) <= Longest
       /\ \A c \in 1..Len(prompt[f]) : prompt[f][c] \in {Told, Newer, Unknown}
  /\ \A n \in 1..4 : DoneOf("llm", n) => Len(prompt[Named[n]]) >= 1
  /\ ~Ahead => \A f \in Field : From(f, Told)
  /\ \A m, n \in 1..4 : m < n => From(Named[m], Told) \/ From(Named[n], Newer)

NewOnly == From(Current, Newer) /\ Rest(val[Current], Taken, {Newer})
CopyInv == pc["llm"] = "work" =>
  /\ Rest(val[Current], Taken, {Told, Newer, Unknown})
  /\ ~Ahead /\ First[Current] = Told => Rest(val[Current], Taken, {Told})
  /\ \A m \in 1..4 : m <= done["llm"] => From(Named[m], Told) \/ NewOnly

\* Field f of the prompt has character x more.
Appends(f, x) ==
  /\ \A g \in Field : g # f => prompt'[g] = prompt[g]
  /\ Len(prompt[f]) \in Nat /\ Len(prompt'[f]) = Len(prompt[f]) + 1
  /\ prompt'[f][Len(prompt[f]) + 1] = x
  /\ \A c \in 1..Len(prompt[f]) : prompt'[f][c] = prompt[f][c]

LEMMA AppendPoints ==
  ASSUME NEW S, prompt \in [Field -> Seq(S)], NEW f \in Field, NEW x \in S,
         prompt' = [prompt EXCEPT ![f] = Append(prompt[f], x)]
  PROVE  Appends(f, x)
<1>1. prompt'[f] = Append(prompt[f], x) /\ \A g \in Field : g # f => prompt'[g] = prompt[g]
  OBVIOUS
<1>2. prompt[f] \in Seq(S)
  OBVIOUS
<1> QED BY <1>1, <1>2 DEF Appends

LEMMA AppendFrom ==
  ASSUME NEW f \in Field, NEW x, Appends(f, x)
  PROVE  \A k : /\ \A g \in Field : g # f => (From(g, k)' <=> From(g, k))
                /\ From(f, k) /\ x = k => From(f, k)'
<1>2. ASSUME NEW k
      PROVE  \A g \in Field : g # f => (From(g, k)' <=> From(g, k))
  BY DEF From, Appends
<1>3. ASSUME NEW k, From(f, k), x = k, NEW c \in 1..Len(prompt'[f])
      PROVE  prompt'[f][c] = k
  <2>1. c = Len(prompt[f]) + 1 \/ c \in 1..Len(prompt[f])
    BY DEF Appends
  <2> QED BY <1>3, <2>1 DEF From, Appends
<1> QED BY <1>2, <1>3 DEF From

\* Where the model finds the estimates as they are when it has the processor.
LEMMA LlmFinds ==
  ASSUME DataOK, QueueInv, NObjects = 4, EstInv, ValInv, WholeInv, LlmHas, ~MidWork,
         NEW f \in Field
  PROVE  /\ Rest(val[f], 0, {Told, Newer, Unknown})
         /\ ~Ahead => Rest(val[f], 0, {Told})
         /\ Ahead => Rest(val[f], 0, {Newer})
         /\ val[f][1] # End
<1>1. /\ First[f] \in {Told, Newer}
      /\ Ahead => First[f] = Newer
      /\ ~Ahead => First[f] = Told
  BY FirstOf
<1>2. Rest(val[f], 0, {First[f]})
  BY DEF WholeInv
<1>3. First[f] = val[f][1] /\ Told # End /\ Newer # End
  BY ToldFacts, StringFacts DEF First
<1>4. Rest(val[f], 0, {Told, Newer, Unknown})
  BY <1>1, <1>2, RestMore
<1> QED BY <1>1, <1>2, <1>3, <1>4

\* The model has its right for as long as it prompts; meanwhile the estimator
\* gets ahead of it, and no further.
LEMMA PromptingHas ==
  ASSUME NObjects = 4, QueueInv, Prompting
  PROVE  LlmHas
BY FreePlaces DEF Prompting, LlmHas

LEMMA AheadStep ==
  ASSUME NObjects = 4, DataOK, QueueInv, PlaceInv, EstInv, Prompting, EstimatorSteps
  PROVE  \/ Ahead' = Ahead /\ UNCHANGED <<val, First>>
         \/ /\ ~Ahead /\ EstimatorHas /\ done["estimator"] \in 0..3
            /\ Rewrites(Classified[done["estimator"] + 1],
                        raw[Classified[done["estimator"] + 1]])
<1>1. ~Announces
  BY PromptingHas DEF EstInv, OneOf
<1>2. CASE Goes("estimator", "announce", "sleep") /\ waiters[3] = <<>>
  BY <1>1, <1>2 DEF Announces, Goes
<1>3. CASE /\ Does("estimator", "signal") /\ waiters[2] = <<>>
           /\ Rewrites(Classified[done["estimator"] + 1],
                       raw[Classified[done["estimator"] + 1]])
  BY <1>3, ThreeThreads DEF Does, Ahead, EstimatorHas, DataOK
<1> QED BY <1>2, <1>3 DEF EstimatorSteps, Goes, Ahead

LEMMA PromptSame ==
  ASSUME PromptInv, CopyInv, Ahead' = Ahead,
         UNCHANGED <<val, First, prompt, prompts>>,
         pc'["llm"] = pc["llm"], done'["llm"] = done["llm"]
  PROVE  PromptInv' /\ CopyInv'
<1>1. /\ Told' = Told /\ Newer' = Newer /\ Current' = Current /\ Taken' = Taken
      /\ \A f, k : From(f, k)' <=> From(f, k)
      /\ Prompting' <=> Prompting
      /\ \A n : DoneOf("llm", n)' <=> DoneOf("llm", n)
  BY DEF Told, Newer, Current, Taken, From, Prompting, DoneOf
<1>2. NewOnly' <=> NewOnly
  BY <1>1 DEF NewOnly
<1>3. PromptInv'
  BY <1>1 DEF PromptInv
<1>4. CopyInv'
  BY <1>1, <1>2 DEF CopyInv
<1> QED BY <1>3, <1>4

LEMMA PromptEstimator ==
  ASSUME NObjects = 4, TypeInv, DataOK, QueueInv, PlaceInv, RawInv, EstInv, PromptInv,
         CopyInv, EstimatorSteps
  PROVE  PromptInv' /\ CopyInv'
<1>1. UNCHANGED <<prompt, prompts>> /\ pc'["llm"] = pc["llm"] /\ done'["llm"] = done["llm"]
  BY ThreeThreads DEF EstimatorSteps, Goes, Does
<1>2. CASE ~Prompting
  BY <1>1, <1>2 DEF PromptInv, CopyInv, Prompting
<1>3. CASE Ahead' = Ahead /\ UNCHANGED <<val, First>>
  BY <1>1, <1>3, PromptSame
<1>4. CASE /\ Prompting /\ ~Ahead /\ EstimatorHas /\ done["estimator"] \in 0..3
           /\ Rewrites(Classified[done["estimator"] + 1],
                       raw[Classified[done["estimator"] + 1]])
  <2> DEFINE g == Classified[done["estimator"] + 1]
  <2>1. g \in Field /\ raw[g] = Newer
    <3>1. done["estimator"] + 1 \in 1..4
      BY <1>4
    <3>2. g \in Field
      BY <3>1, ElementFacts
    <3>3. raw[g] = estimates
      BY <1>4, <3>2, RawAll DEF RawInv
    <3>4. Announced(Newer)
      BY <1>4, PromptingHas DEF EstInv, Newer
    <3>5. Newer = estimates
      BY <1>4, <3>4 DEF Announced, EstimatorHas
    <3> QED BY <3>2, <3>3, <3>5
  <2>2. Rewrites(g, Newer)
    BY <1>4, <2>1
  <2> HIDE DEF g
  <2>3. /\ \E n \in 1..Longest : val'[g] = Rewritten(val[g], Newer, n)
        /\ \A f \in Field : f # g => val'[f] = val[f] /\ First'[f] = First[f]
        /\ First'[g] = Newer
    <3>1. val \in [Field -> [Cell -> Index \cup {End, Unknown}]]
      BY DEF TypeInv, PipelineTypeOK
    <3> QED BY <2>1, <2>2, <3>1, RewritesPoints
  <2>4. /\ Told' = Told /\ Newer' = Newer /\ Current' = Current /\ Taken' = Taken
        /\ \A f, k : From(f, k)' <=> From(f, k)
        /\ Prompting' <=> Prompting
        /\ \A n : DoneOf("llm", n)' <=> DoneOf("llm", n)
    BY <1>1 DEF Told, Newer, Current, Taken, From, Prompting, DoneOf
  <2>5. \A f \in Field : From(f, Told)
    BY <1>4 DEF PromptInv
  <2>6. PromptInv'
    <3>1. \A f \in Field :
            /\ Len(prompt'[f]) <= Longest
            /\ \A c \in 1..Len(prompt'[f]) : prompt'[f][c] \in {Told', Newer', Unknown}
      BY <1>1, <1>4, <2>4 DEF PromptInv
    <3>2. \A n \in 1..4 : DoneOf("llm", n)' => Len(prompt'[Named[n]]) >= 1
      BY <1>1, <1>4, <2>4 DEF PromptInv
    <3>3. \A f \in Field : From(f, Told)'
      BY <2>4, <2>5
    <3>4. \A m, n \in 1..4 : m < n => From(Named[m], Told)' \/ From(Named[n], Newer)'
      BY <1>4, <2>4 DEF PromptInv
    <3> QED BY <3>1, <3>2, <3>3, <3>4 DEF PromptInv
  <2>7. Current \in Field /\ Taken \in Nat /\ Told # Newer
        /\ \A n \in 1..4 : Named[n] \in Field
    BY CurrentFacts, ToldFacts, TypeParts, ElementFacts DEF Taken, DataOK, TypeInv
  <2>8. ASSUME pc["llm"] = "work"
        PROVE  /\ Rest(val'[Current], Taken, {Told, Newer, Unknown})
               /\ First'[Current] = Told => Rest(val'[Current], Taken, {Told})
    <3>1. /\ Rest(val[Current], Taken, {Told, Newer, Unknown})
          /\ First[Current] = Told => Rest(val[Current], Taken, {Told})
      BY <1>4, <2>8 DEF CopyInv
    <3>2. CASE Current = g
      BY <2>3, <2>7, <3>1, <3>2, RestKept
    <3>3. CASE Current # g
      BY <2>3, <2>7, <3>1, <3>3
    <3> QED BY <3>2, <3>3
  <2>9. CopyInv'
    <3>1. \A m \in 1..4 : From(Named[m], Told)
      BY <2>5, <2>7
    <3> QED BY <1>1, <2>4, <2>8, <3>1 DEF CopyInv
  <2> QED BY <2>6, <2>9
<1> QED BY <1>2, <1>3, <1>4, AheadStep

LEMMA FromNothing ==
  ASSUME NEW f, NEW k, Len(prompt[f]) = 0
  PROVE  From(f, k)
BY DEF From

\* One more character of the field the model is at.
LEMMA PromptCopies ==
  ASSUME NObjects = 4, TypeInv, DataOK, QueueInv, EstInv, ValInv, PromptInv, CopyInv,
         ~MidWork, Copies, Ahead' = Ahead, UNCHANGED <<val, First>>
  PROVE  PromptInv' /\ CopyInv'
<1> DEFINE x == NextChar(Current)
<1>0. PICK f : f = Current
  OBVIOUS
<1>1. /\ f \in Field /\ done["llm"] \in 0..3 /\ f = Named[done["llm"] + 1]
      /\ \A m, n \in 1..4 : m # n => Named[m] # Named[n]
      /\ \A n \in 1..4 : Named[n] \in Field
      /\ StringInv /\ prompt \in [Field -> Seq(Chars)] /\ Taken \in Nat
  <2>1. ThreadTypeOK /\ StringInv /\ prompt \in [Field -> Seq(Chars)]
    BY TypeParts DEF TypeInv, DataTypeOK, Chars
  <2>2. /\ Current \in Field /\ done["llm"] \in 0..3
        /\ \A m, n \in 1..4 : m # n => Named[m] # Named[n]
    BY <2>1, CurrentFacts
  <2>3. \A n \in 1..4 : Named[n] \in Field
    BY ElementFacts
  <2>4. Taken \in Nat
    BY <2>2 DEF DataOK, Taken
  <2> QED BY <1>0, <2>1, <2>2, <2>3, <2>4 DEF Current
<1>2. /\ pc["llm"] = "work" /\ Prompting /\ Prompting' /\ LlmHas /\ pc'["llm"] = "work"
      /\ done' = done /\ Told' = Told /\ Newer' = Newer /\ Current' = Current
      /\ x = val[f][Taken + 1] /\ x # End
  BY <1>0, PromptingHas DEF Copies, Prompting, Told, Newer, Current, NextChar, Taken
<1>3. /\ Rest(val[f], Taken, {Told, Newer, Unknown})
      /\ ~Ahead => Rest(val[f], Taken, {Told})
  BY <1>0, <1>1, <1>2, FirstOf DEF CopyInv
<1>4. /\ Taken + 1 <= Longest /\ x \in {Told, Newer, Unknown}
      /\ Rest(val[f], Taken + 1, {Told, Newer, Unknown})
  BY <1>1, <1>2, <1>3, RestOn
<1>5. ~Ahead => x \in {Told} /\ Rest(val[f], Taken + 1, {Told})
  BY <1>1, <1>2, <1>3, RestOn
<1>6. x \in Chars
  <2>1. Rest(val[f], Taken, Chars)
    BY <1>0, <1>1, <1>2 DEF StringInv, Taken
  <2> QED BY <1>1, <1>2, <2>1, RestOn
<1>7. prompt' = [prompt EXCEPT ![f] = Append(prompt[f], x)]
  BY <1>0 DEF Copies
<1> HIDE DEF x
<1>8. /\ \A g \in Field : g # f => prompt'[g] = prompt[g]
      /\ Len(prompt'[f]) = Len(prompt[f]) + 1
      /\ prompt'[f][Len(prompt[f]) + 1] = x
      /\ \A c \in 1..Len(prompt[f]) : prompt'[f][c] = prompt[f][c]
  <2>1. Appends(f, x)
    BY <1>1, <1>6, <1>7, AppendPoints
  <2> QED BY <2>1 DEF Appends
<1>9. ASSUME NEW k
      PROVE  /\ \A g \in Field : g # f => (From(g, k)' <=> From(g, k))
             /\ From(f, k) /\ x = k => From(f, k)'
  <2>1. Appends(f, x)
    BY <1>1, <1>6, <1>7, AppendPoints
  <2> QED BY <1>1, <2>1, AppendFrom
<1>10. Taken = Len(prompt[f]) /\ Taken' = Taken + 1
  BY <1>0, <1>2, <1>8 DEF Taken
<1>11. NewOnly => From(f, Newer)' /\ NewOnly'
  <2>1. SUFFICES ASSUME NewOnly
                 PROVE  From(f, Newer)' /\ NewOnly'
    OBVIOUS
  <2>2. From(f, Newer) /\ Rest(val[f], Taken, {Newer})
    BY <1>0, <2>1 DEF NewOnly
  <2>3. x \in {Newer} /\ Rest(val[f], Taken + 1, {Newer})
    BY <1>1, <1>2, <2>2, RestOn
  <2>4. From(f, Newer)'
    BY <1>2, <1>9, <2>2, <2>3
  <2>5. From(Current, Newer)'
    BY <1>0, <1>2, <2>4 DEF From
  <2> QED BY <1>0, <1>2, <1>10, <2>3, <2>4, <2>5 DEF NewOnly
<1>12. ~Ahead => \A g \in Field : From(g, Told)'
  <2>1. SUFFICES ASSUME ~Ahead, NEW g \in Field
                 PROVE  From(g, Told)'
    OBVIOUS
  <2>2. From(g, Told)
    BY <1>2, <2>1 DEF PromptInv
  <2>3. From(g, Told)'
    <3>1. x = Told
      BY <1>5, <2>1
    <3>2. CASE g = f
      BY <1>2, <1>9, <2>2, <3>1, <3>2
    <3>3. CASE g # f
      BY <1>2, <1>9, <2>2, <3>3
    <3> QED BY <3>2, <3>3
  <2> QED BY <1>2, <2>3
<1>13. ASSUME NEW m \in 1..4, m <= done["llm"]
       PROVE  Named[m] # f /\ (From(Named[m], Told)' \/ NewOnly')
  <2>1. From(Named[m], Told) \/ NewOnly
    BY <1>2, <1>13 DEF CopyInv
  <2>2. done["llm"] + 1 \in 1..4 /\ m # done["llm"] + 1
    BY <1>1, <1>13
  <2>3. Named[m] # f
    BY <1>1, <2>2
  <2> QED BY <1>1, <1>2, <1>9, <1>11, <2>1, <2>3
<1>14. CopyInv'
  <2>1. Rest(val'[Current'], Taken', {Told', Newer', Unknown})
    BY <1>0, <1>2, <1>4, <1>10
  <2>2. ~Ahead' => Rest(val'[Current'], Taken', {Told'})
    BY <1>0, <1>2, <1>5, <1>10
  <2>3. \A m \in 1..4 : m <= done'["llm"] => From(Named[m], Told)' \/ NewOnly'
    BY <1>2, <1>13
  <2> QED BY <2>1, <2>2, <2>3 DEF CopyInv
<1>15. ASSUME NEW g \in Field
       PROVE  /\ Len(prompt'[g]) <= Longest
              /\ \A c \in 1..Len(prompt'[g]) : prompt'[g][c] \in {Told, Newer, Unknown}
  <2>1. \A c \in 1..Len(prompt[g]) : prompt[g][c] \in {Told, Newer, Unknown}
    BY <1>2 DEF PromptInv
  <2>2. CASE g # f
    BY <1>2, <1>8, <2>2 DEF PromptInv
  <2>3. CASE g = f
    <3>1. Len(prompt'[g]) <= Longest
      BY <1>4, <1>8, <1>10, <2>3
    <3>2. ASSUME NEW c \in 1..Len(prompt'[g])
          PROVE  prompt'[g][c] \in {Told, Newer, Unknown}
      <4>1. c = Len(prompt[f]) + 1 \/ c \in 1..Len(prompt[f])
        BY <1>1, <1>8, <1>10, <2>3
      <4> QED BY <1>4, <1>8, <2>1, <2>3, <4>1
    <3> QED BY <3>1, <3>2
  <2> QED BY <2>2, <2>3
<1>16. ASSUME NEW n \in 1..4, DoneOf("llm", n)'
       PROVE  Len(prompt'[Named[n]]) >= 1
  <2>1. n <= done["llm"] /\ DoneOf("llm", n)
    BY <1>2, <1>16 DEF DoneOf
  <2>2. Named[n] # f
    BY <1>13, <2>1
  <2> QED BY <1>1, <1>2, <1>8, <2>1, <2>2 DEF PromptInv
<1>17. ASSUME NEW m \in 1..4, NEW n \in 1..4, m < n
       PROVE  From(Named[m], Told)' \/ From(Named[n], Newer)'
  <2>1. CASE n = done["llm"] + 1
    <3>1. m <= done["llm"] /\ Named[n] = f
      BY <1>1, <1>17, <2>1
    <3>2. From(Named[m], Told) \/ NewOnly
      BY <1>2, <3>1 DEF CopyInv
    <3>3. Named[m] # f
      BY <1>13, <3>1
    <3> QED BY <1>1, <1>2, <1>9, <1>11, <3>1, <3>2, <3>3
  <2>2. CASE n > done["llm"] + 1
    <3>1. prompt[Named[n]] = <<>>
      BY <1>1, <1>2, <2>2 DEF StringInv
    <3>2. Named[n] # f
      <4>1. done["llm"] + 1 \in 1..4 /\ n # done["llm"] + 1
        BY <1>1, <2>2
      <4> QED BY <1>1, <4>1
    <3>3. From(Named[n], Newer)
      BY <3>1, FromNothing
    <3> QED BY <1>1, <1>2, <1>9, <3>2, <3>3
  <2>3. CASE n < done["llm"] + 1
    <3>1. m <= done["llm"] /\ n <= done["llm"]
      BY <1>1, <1>17, <2>3
    <3>2. From(Named[m], Told) \/ From(Named[n], Newer)
      BY <1>2, <1>17 DEF PromptInv
    <3>3. Named[m] # f /\ Named[n] # f
      BY <1>13, <3>1
    <3> QED BY <1>1, <1>2, <1>9, <3>2, <3>3
  <2> QED BY <1>1, <2>1, <2>2, <2>3
<1>18. PromptInv'
  BY <1>2, <1>12, <1>15, <1>16, <1>17 DEF PromptInv
<1> QED BY <1>14, <1>18

\* The end of a field, and with it the beginning of the next one.
LEMMA PromptEnds ==
  ASSUME NObjects = 4, TypeInv, DataOK, QueueInv, EstInv, ValInv, WholeInv, PromptInv,
         CopyInv, ~MidWork, Does("llm", "forward"), NextChar(Current) = End,
         UNCHANGED <<prompt, prompts>>, Ahead' = Ahead, UNCHANGED <<val, First>>
  PROVE  PromptInv' /\ CopyInv'
<1>1. /\ Current \in Field /\ done["llm"] \in 0..3 /\ Current = Named[done["llm"] + 1]
      /\ \A n \in 1..4 : Named[n] \in Field
      /\ StringInv /\ Taken \in Nat
  BY CurrentFacts, TypeParts, ElementFacts
     DEF TypeInv, DataOK, Current, Taken
<1>2. /\ pc["llm"] = "work" /\ Prompting /\ Prompting' /\ LlmHas
      /\ Told' = Told /\ Newer' = Newer
      /\ \A f, k : From(f, k)' <=> From(f, k)
  BY PromptingHas DEF Does, Prompting, Told, Newer, From
<1>3. Taken >= 1
  <2>1. val[Current][1] # End
    BY <1>1, <1>2, LlmFinds
  <2>2. Taken # 0
    BY <1>1, <2>1 DEF NextChar, Taken
  <2> QED BY <1>1, <2>2
<1>4. ASSUME NEW n \in 1..4, DoneOf("llm", n)'
      PROVE  Len(prompt[Named[n]]) >= 1
  <2>1. n = done["llm"] + 1 \/ n <= done["llm"]
    BY <1>1, <1>4 DEF DoneOf, Does
  <2> QED BY <1>1, <1>2, <1>3, <2>1 DEF PromptInv, DoneOf, Taken
<1>5. PromptInv'
  <2>1. \A f \in Field :
          /\ Len(prompt'[f]) <= Longest
          /\ \A c \in 1..Len(prompt'[f]) : prompt'[f][c] \in {Told', Newer', Unknown}
    BY <1>2 DEF PromptInv
  <2>2. ~Ahead' => \A f \in Field : From(f, Told)'
    BY <1>2 DEF PromptInv
  <2>3. \A m, n \in 1..4 : m < n => From(Named[m], Told)' \/ From(Named[n], Newer)'
    BY <1>2 DEF PromptInv
  <2> QED BY <1>4, <2>1, <2>2, <2>3 DEF PromptInv
<1>6. CASE done["llm"] = 3
  <2>1. pc'["llm"] = "forward"
    BY <1>6 DEF Does
  <2> QED BY <1>5, <2>1 DEF CopyInv
<1>7. CASE done["llm"] \in 0..2 /\ done'["llm"] = done["llm"] + 1
  <2>1. done["llm"] + 2 \in 1..4 /\ Current' = Named[done["llm"] + 2]
    BY <1>7 DEF Current
  <2>2. Current' \in Field /\ Len(prompt[Current']) = 0 /\ Taken' = 0
    <3>1. prompt[Current'] = <<>>
      BY <1>1, <1>2, <1>7, <2>1 DEF StringInv
    <3> QED BY <1>1, <2>1, <3>1 DEF Taken
  <2>3. /\ Rest(val[Current'], 0, {Told, Newer, Unknown})
        /\ ~Ahead => Rest(val[Current'], 0, {Told})
        /\ Ahead => Rest(val[Current'], 0, {Newer})
    BY <1>2, <2>2, LlmFinds
  <2>4. Ahead => NewOnly'
    <3>1. From(Current', Newer)
      BY <2>2, FromNothing
    <3>2. From(Current, Newer)'
      BY <1>2, <3>1 DEF From
    <3> QED BY <1>2, <2>2, <2>3, <3>2 DEF NewOnly
  <2>5. ~Ahead => \A m \in 1..4 : From(Named[m], Told)'
    BY <1>1, <1>2 DEF PromptInv
  <2>6. Rest(val'[Current'], Taken', {Told', Newer', Unknown})
    BY <1>2, <2>2, <2>3
  <2>7. ~Ahead' => Rest(val'[Current'], Taken', {Told'})
    BY <1>2, <2>2, <2>3
  <2>8. \A m \in 1..4 : From(Named[m], Told)' \/ NewOnly'
    BY <2>4, <2>5
  <2>9. CopyInv'
    BY <2>6, <2>7, <2>8 DEF CopyInv
  <2> QED BY <1>5, <2>9
<1> QED BY <1>5, <1>6, <1>7 DEF Does

LEMMA PromptLlm ==
  ASSUME NObjects = 4, TypeInv, DataOK, QueueInv, PlaceInv, EstInv, ValInv, WholeInv,
         PromptInv, CopyInv, ~MidWork, LlmSteps
  PROVE  PromptInv' /\ CopyInv'
<1>1. UNCHANGED <<val, First>> /\ Ahead' = Ahead
  BY ThreeThreads DEF LlmSteps, Copies, Goes, Does, Ahead
<1>2. ASSUME pc'["llm"] \notin {"work", "forward", "token", "signal"}
      PROVE  PromptInv' /\ CopyInv'
  BY <1>2 DEF PromptInv, Prompting, CopyInv
<1>3. CASE /\ Goes("llm", "time", "work") /\ waiters[4] = <<>> /\ SemsSame
           /\ prompt' = EmptyPrompt /\ UNCHANGED <<done, prompts>>
  <2>1. done["llm"] = 0 /\ done' = done /\ pc'["llm"] = "work" /\ LlmHas
    BY <1>3, ThreeThreads DEF PlaceInv, DataOK, Goes, LlmHas
  <2>2. Current \in Field /\ Current' = Current /\ \A n \in 1..4 : Named[n] \in Field
    BY <2>1, CurrentFacts, TypeParts, ElementFacts DEF TypeInv, Current
  <2>3. \A f \in Field : Len(prompt'[f]) = 0 /\ prompt'[f] = <<>>
    BY <1>3 DEF EmptyPrompt
  <2>4. Taken' = 0 /\ Told' = Told /\ Newer' = Newer
    BY <1>3, <2>2, <2>3 DEF Taken, Told, Newer
  <2>5. \A f \in Field : \A k : From(f, k)'
    BY <2>3 DEF From
  <2>6. /\ Rest(val[Current], 0, {Told, Newer, Unknown})
        /\ ~Ahead => Rest(val[Current], 0, {Told})
    BY <2>1, <2>2, LlmFinds
  <2>7. CopyInv'
    BY <1>1, <2>1, <2>2, <2>4, <2>6 DEF CopyInv
  <2>8. PromptInv'
    <3>1. \A n \in 1..4 : ~DoneOf("llm", n)'
      BY <2>1 DEF DoneOf
    <3>2. \A f \in Field : Len(prompt'[f]) <= Longest
      BY <2>3, StringFacts
    <3>3. \A f \in Field : \A c \in 1..Len(prompt'[f]) :
            prompt'[f][c] \in {Told', Newer', Unknown}
      BY <2>3
    <3>4. \A m \in 1..4 : From(Named[m], Told)'
      BY <2>2, <2>5
    <3> QED BY <2>5, <3>1, <3>2, <3>3, <3>4 DEF PromptInv
  <2> QED BY <2>7, <2>8
<1>4. CASE Copies
  BY <1>1, <1>4, PromptCopies
<1>5. CASE /\ Does("llm", "forward") /\ NextChar(Current) = End
           /\ UNCHANGED <<prompt, prompts>>
  BY <1>1, <1>5, PromptEnds
<1>6. CASE /\ \/ \E to \in {"forward", "token"} : Goes("llm", "forward", to)
              \/ \E to \in {"forward", "signal"} : Goes("llm", "token", to)
           /\ UNCHANGED <<done, prompt, prompts>>
  <2>1. /\ Prompting /\ Prompting' /\ pc["llm"] # "work" /\ pc'["llm"] # "work"
        /\ Told' = Told /\ Newer' = Newer
        /\ \A f, k : From(f, k)' <=> From(f, k)
    BY <1>6 DEF Goes, Prompting, Told, Newer, From
  <2>2. CopyInv'
    BY <2>1 DEF CopyInv
  <2>3. \A n \in 1..4 : DoneOf("llm", n)
    BY <2>1 DEF DoneOf
  <2>4. PromptInv'
    BY <1>1, <1>6, <2>1, <2>3 DEF PromptInv
  <2> QED BY <2>2, <2>4
<1> QED BY <1>2, <1>3, <1>4, <1>5, <1>6 DEF LlmSteps, Goes

\* Where threads run until they block, who is in the midst of its data has the
\* processor, and the model finds the estimator's variables of one estimate.
RRInv ==
  policy = "RR" =>
    /\ EstimatorHas /\ (pc["estimator"] = "signal" \/ done["estimator"] > 0) =>
         running = "estimator"
    /\ pc["llm"] = "work" => running = "llm"
    /\ pc["llm"] = "work" /\ Ahead =>
         (\A f \in Field : From(f, Newer)) /\ Rest(val[Current], Taken, {Newer})
    /\ pc["llm"] \in {"forward", "token", "signal"} =>
         (\A f \in Field : From(f, Told)) \/ (\A f \in Field : From(f, Newer))

SleepInv == \A t \in Thread : sleep[t] > 0 => pc[t] = "wait"

LEMMA SleepStep ==
  ASSUME TypeInv, SleepInv, [Next]_vars
  PROVE  SleepInv'
<1>0. pc \in [Thread -> Place] /\ sleep \in [Thread -> 0..5]
  BY TypeParts DEF TypeInv, ThreadTypeOK
<1>1. CASE sleep' = sleep /\ \E t \in Thread : pc'[t] # pc[t] /\ t \in Ready
                          /\ \A u \in Thread : u # t => pc'[u] = pc[u]
  <2>1. PICK t \in Thread : t \in Ready /\ \A u \in Thread : u # t => pc'[u] = pc[u]
    BY <1>1
  <2>2. sleep[t] = 0
    BY <2>1 DEF Ready
  <2> QED BY <1>1, <2>1, <2>2 DEF SleepInv
<1>2. CASE \E t \in Thread : GoesToSleep(t)
  BY <1>0, <1>2 DEF GoesToSleep, GoTo, SleepInv
<1>3. CASE sleep' = sleep /\ pc' = pc
  BY <1>3 DEF SleepInv
<1>4. CASE Tick
  <2>1. \A t \in Thread : sleep'[t] > 0 => sleep[t] > 0
    BY <1>0, <1>4 DEF Tick
  <2> QED BY <1>4, <2>1 DEF Tick, SleepInv
<1>5. CASE MayRun("sensor") /\ Sensor
  <2>1. \/ GoesToSleep("sensor")
        \/ sleep' = sleep /\ (pc' = pc \/ \E where : GoTo("sensor", where))
    BY <1>5 DEF Sensor
  <2> QED BY <1>0, <1>1, <1>2, <1>3, <1>5, <2>1, ElementFacts DEF GoTo, MayRun
<1>6. CASE MayRun("estimator") /\ Estimator
  <2>1. \/ GoesToSleep("estimator")
        \/ sleep' = sleep /\ (pc' = pc \/ \E where : GoTo("estimator", where))
    BY <1>6 DEF Estimator
  <2> QED BY <1>0, <1>1, <1>2, <1>3, <1>6, <2>1, ElementFacts DEF GoTo, MayRun
<1>7. CASE MayRun("llm") /\ Llm
  <2>1. \/ GoesToSleep("llm")
        \/ sleep' = sleep /\ (pc' = pc \/ \E where : GoTo("llm", where))
    BY <1>7 DEF Llm, Prompt, Forward, Token, Respond
  <2> QED BY <1>0, <1>1, <1>2, <1>3, <1>7, <2>1, ElementFacts DEF GoTo, MayRun
<1>8. CASE UNCHANGED vars
  BY <1>3, <1>8 DEF vars
<1> QED BY <1>4, <1>5, <1>6, <1>7, <1>8 DEF Next, Run

\* The model does not get the processor while the estimator writes: under STATIC
\* the estimator, which blocks nowhere in between, has the higher priority.
LEMMA NotMidWork ==
  ASSUME NObjects = 4, TypeInv, QueueInv, SleepInv, RRInv, MayRun("llm")
  PROVE  ~MidWork
<1> SUFFICES ASSUME MidWork
             PROVE  FALSE
  OBVIOUS
<1>1. CASE policy = "RR"
  BY <1>1 DEF RRInv, MidWork, MayRun, Nobody
<1>2. CASE policy = "STATIC"
  <2>1. "estimator" \notin Waiting
    <3> SUFFICES ASSUME NEW o \in Object, NEW n \in 1..Len(waiters[o]),
                        waiters[o][n] = "estimator"
                 PROVE  FALSE
      BY DEF Waiting
    <3>1. waiters[o] # <<>>
      OBVIOUS
    <3>2. waiters[o] = <<WaiterOf[o]>> /\ done[WaiterOf[o]] = 0
      BY <3>1 DEF QueueInv
    <3>3. WaiterOf[o] = "estimator"
      BY <3>2
    <3> QED BY <3>2, <3>3 DEF MidWork
  <2>2. sleep["estimator"] = 0
    <3>1. sleep["estimator"] \in 0..5
      BY ElementFacts DEF TypeInv, PipelineTypeOK
    <3> QED BY <3>1, ElementFacts DEF SleepInv, MidWork
  <2>3. "estimator" \in Ready
    BY <2>1, <2>2, ElementFacts DEF Ready
  <2>4. Priority["estimator"] = 42 /\ Priority["llm"] = 40
    BY ElementFacts DEF Priority
  <2> QED BY <1>2, <2>3, <2>4 DEF MayRun
<1> QED BY <1>1, <1>2, PipelineAssumption DEF TypeInv, PipelineTypeOK

LEMMA Keeps ==
  ASSUME NEW t, MayRun(t), Leaves(t), UNCHANGED <<semVars, sleep>>
  PROVE  running' = t
<1>1. t \in Ready
  BY DEF MayRun
<1>2. Ready' = Ready
  BY DEF Ready, Waiting, semVars
<1> QED BY <1>1, <1>2 DEF Leaves

LEMMA RRSensor ==
  ASSUME QueueInv, NObjects = 4, RRInv, MayRun("sensor"), SensorSteps, policy' = policy
  PROVE  RRInv'
<1> SUFFICES ASSUME policy = "RR"
             PROVE  RRInv'
  BY DEF RRInv
<1>1. running # "estimator" /\ pc["llm"] # "work"
  BY DEF MayRun, Nobody, RRInv
<1>2. /\ UNCHANGED <<prompt, prompts, estimates>> /\ Object = 1..4
      /\ \A t \in {"llm", "estimator"} : pc'[t] = pc[t] /\ done'[t] = done[t]
      /\ Same(2) \/ Wakes(2) \/ (Posts(2) /\ waiters'[2] = waiters[2])
  BY Handles, ThreeThreads
     DEF SensorSteps, Goes, Does, Takes, Blocks, Posts, Wakes, Others, SemsSame
<1>3. ~(EstimatorHas' /\ (pc'["estimator"] = "signal" \/ done'["estimator"] > 0))
  <2>1. CASE waiters'[2] = waiters[2]
    BY <1>1, <1>2, <2>1 DEF EstimatorHas, RRInv
  <2>2. CASE Wakes(2)
    <3>1. waiters[2] = <<"estimator">> /\ waiters[2] # <<>>
      BY <2>2, SemaphoreNames DEF Wakes
    <3>2. WaiterOf[2] = "estimator" /\ BlockedAt[2] = "work" /\ 2 \in Object
      BY <1>2, SemaphoreNames DEF BlockedAt
    <3>3. pc["estimator"] = "work" /\ done["estimator"] = 0
      BY <3>1, <3>2 DEF QueueInv
    <3> QED BY <1>2, <3>3
  <2> QED BY <1>2, <2>1, <2>2 DEF Same
<1>4. Told' = Told /\ Newer' = Newer /\ \A f, k : From(f, k)' <=> From(f, k)
  BY <1>2 DEF Told, Newer, From
<1> QED BY <1>1, <1>2, <1>3, <1>4 DEF RRInv

LEMMA RREstimator ==
  ASSUME DataOK, PlaceInv, QueueInv, NObjects = 4, RRInv, MayRun("estimator"),
         EstimatorSteps, policy' = policy,
         pc["estimator"] = "work" => running' = "estimator"
  PROVE  RRInv'
<1> SUFFICES ASSUME policy = "RR"
             PROVE  RRInv'
  BY DEF RRInv
<1>1. pc["llm"] # "work"
  BY DEF MayRun, Nobody, RRInv
<1>2. /\ UNCHANGED <<prompt, prompts>> /\ pc'["llm"] = pc["llm"]
      /\ done'["llm"] = done["llm"]
  BY ThreeThreads DEF EstimatorSteps, Goes, Does
<1>3. ASSUME EstimatorHas', pc'["estimator"] = "signal" \/ done'["estimator"] > 0
      PROVE  pc["estimator"] = "work"
  BY <1>3, ThreeThreads
     DEF EstimatorSteps, Goes, Does, EstimatorHas, PlaceInv, DataOK
<1>4. Told' = Told /\ Newer' = Newer /\ \A f, k : From(f, k)' <=> From(f, k)
  BY <1>2 DEF Told, Newer, From
<1> QED BY <1>1, <1>2, <1>3, <1>4 DEF RRInv

LEMMA RRLlm ==
  ASSUME TypeInv, DataOK, PlaceInv, QueueInv, NObjects = 4, RRInv, EstInv, ValInv,
         WholeInv, PromptInv, ~MidWork, MayRun("llm"), LlmSteps, policy' = policy,
         pc["llm"] \in {"time", "work"} => running' = "llm"
  PROVE  RRInv'
<1> SUFFICES ASSUME policy = "RR"
             PROVE  RRInv'
  BY DEF RRInv
<1>1. running # "estimator"
  BY DEF MayRun, Nobody
<1>2. /\ Same(2) /\ UNCHANGED <<val, First>> /\ Ahead' = Ahead
      /\ pc'["estimator"] = pc["estimator"] /\ done'["estimator"] = done["estimator"]
  BY ThreeThreads
     DEF LlmSteps, Copies, Goes, Does, Takes, Blocks, Posts, Wakes, Others, SemsSame, Ahead
<1>3. ~(EstimatorHas' /\ (pc'["estimator"] = "signal" \/ done'["estimator"] > 0))
  BY <1>1, <1>2 DEF EstimatorHas, Same, RRInv
<1>4. /\ Current \in Field /\ done["llm"] \in 0..3
      /\ \A m, n \in 1..4 : m # n => Named[m] # Named[n]
      /\ \A n \in 1..4 : Named[n] \in Field
      /\ StringInv /\ prompt \in [Field -> Seq(Chars)] /\ Taken \in Nat
  <2>1. ThreadTypeOK /\ StringInv /\ prompt \in [Field -> Seq(Chars)]
    BY TypeParts DEF TypeInv, DataTypeOK, Chars
  <2>2. /\ Current \in Field /\ done["llm"] \in 0..3
        /\ \A m, n \in 1..4 : m # n => Named[m] # Named[n]
    BY <2>1, CurrentFacts
  <2>3. \A n \in 1..4 : Named[n] \in Field
    BY ElementFacts
  <2>4. Taken \in Nat
    BY <2>2 DEF DataOK, Taken
  <2> QED BY <2>1, <2>2, <2>3, <2>4 DEF Current
<1>5. ASSUME pc'["llm"] \notin {"work", "forward", "token", "signal"}
      PROVE  RRInv'
  BY <1>3, <1>5 DEF RRInv
<1>6. CASE /\ Goes("llm", "time", "work") /\ waiters[4] = <<>>
           /\ prompt' = EmptyPrompt /\ UNCHANGED <<done, prompts>>
  <2>1. running' = "llm" /\ pc'["llm"] = "work" /\ LlmHas
    BY <1>6 DEF Goes, LlmHas
  <2>2. \A f \in Field : Len(prompt'[f]) = 0
    BY <1>6 DEF EmptyPrompt
  <2>3. Current' = Current /\ Taken' = 0 /\ Newer' = Newer
    BY <1>4, <1>6, <2>2 DEF Current, Taken, Newer
  <2>4. \A f \in Field : From(f, Newer)'
    BY <2>2 DEF From
  <2>5. Ahead => Rest(val[Current], 0, {Newer})
    BY <1>4, <2>1, LlmFinds
  <2> QED BY <1>2, <1>3, <2>1, <2>3, <2>4, <2>5 DEF RRInv
<1>7. CASE Copies
  <2> DEFINE x == NextChar(Current)
  <2>0. PICK h : h = Current
    OBVIOUS
  <2>1. /\ pc["llm"] = "work" /\ pc'["llm"] = "work" /\ running' = "llm"
        /\ Current' = h /\ Newer' = Newer /\ h \in Field
        /\ x = val[h][Taken + 1] /\ x # End
        /\ prompt' = [prompt EXCEPT ![h] = Append(prompt[h], x)]
    BY <1>2, <1>4, <1>7, <2>0 DEF Copies, Current, Newer, NextChar, Taken
  <2> HIDE DEF x
  <2>2. SUFFICES ASSUME Ahead
                 PROVE  (\A f \in Field : From(f, Newer)')
                        /\ Rest(val[h], Taken', {Newer})
    BY <1>2, <1>3, <2>1 DEF RRInv
  <2>3. (\A f \in Field : From(f, Newer)) /\ Rest(val[h], Taken, {Newer})
    BY <2>0, <2>1, <2>2 DEF RRInv
  <2>4. x \in {Newer} /\ Rest(val[h], Taken + 1, {Newer})
    BY <1>4, <2>1, <2>3, RestOn
  <2>5. x \in Chars
    <3>1. Rest(val[h], Taken, Chars)
      BY <1>4, <2>0, <2>1 DEF StringInv, Taken
    <3> QED BY <1>4, <2>1, <3>1, RestOn
  <2>6. Appends(h, x)
    BY <1>4, <2>1, <2>5, AppendPoints
  <2>7. Taken' = Taken + 1
    BY <2>0, <2>1, <2>6 DEF Taken, Appends
  <2>8. ASSUME NEW f \in Field
        PROVE  From(f, Newer)'
    <3>1. \A k : /\ \A g \in Field : g # h => (From(g, k)' <=> From(g, k))
                 /\ From(h, k) /\ x = k => From(h, k)'
      BY <2>1, <2>6, AppendFrom
    <3>2. x = Newer /\ From(f, Newer)
      BY <2>3, <2>4
    <3>3. CASE f = h
      BY <2>1, <3>1, <3>2, <3>3
    <3>4. CASE f # h
      BY <2>1, <3>1, <3>2, <3>4
    <3> QED BY <3>3, <3>4
  <2> QED BY <2>4, <2>7, <2>8
<1>8. CASE Does("llm", "forward") /\ waiters[4] = <<>> /\ UNCHANGED <<prompt, prompts>>
  <2>1. /\ pc["llm"] = "work" /\ running' = "llm" /\ Prompting /\ LlmHas
        /\ Told' = Told /\ Newer' = Newer
        /\ \A f, k : From(f, k)' <=> From(f, k)
    BY <1>8 DEF Does, Prompting, LlmHas, Told, Newer, From
  <2>2. Ahead => \A f \in Field : From(f, Newer)
    BY <2>1 DEF RRInv
  <2>3. ~Ahead => \A f \in Field : From(f, Told)
    BY <2>1 DEF PromptInv
  <2>4. CASE pc'["llm"] = "forward"
    BY <1>3, <2>1, <2>2, <2>3, <2>4 DEF RRInv
  <2>5. CASE /\ pc'["llm"] = "work" /\ done["llm"] \in 0..2
             /\ done'["llm"] = done["llm"] + 1
    <3>1. done["llm"] + 2 \in 1..4 /\ Current' = Named[done["llm"] + 2]
      BY <2>5 DEF Current
    <3>2. Current' \in Field /\ Taken' = 0
      <4>1. prompt[Current'] = <<>>
        <5>1. \A n \in 1..4 : n > done["llm"] + 1 => prompt[Named[n]] = <<>>
          BY <1>4, <2>1 DEF StringInv
        <5>2. done["llm"] + 2 > done["llm"] + 1
          BY <2>5
        <5> QED BY <3>1, <5>1, <5>2
      <4>2. Current' \in Field
        BY <1>4, <3>1
      <4>3. prompt'[Current'] = <<>>
        BY <1>8, <4>1
      <4> QED BY <4>2, <4>3 DEF Taken
    <3>3. Ahead => Rest(val[Current'], 0, {Newer})
      BY <2>1, <3>2, LlmFinds
    <3> QED BY <1>2, <1>3, <2>1, <2>2, <2>5, <3>2, <3>3 DEF RRInv
  <2> QED BY <1>8, <2>4, <2>5 DEF Does
<1>9. CASE /\ \/ \E to \in {"forward", "token"} : Goes("llm", "forward", to)
              \/ \E to \in {"forward", "signal"} : Goes("llm", "token", to)
           /\ UNCHANGED <<done, prompt, prompts>>
  <2>1. /\ pc["llm"] \in {"forward", "token"}
        /\ pc'["llm"] \in {"forward", "token", "signal"}
        /\ Told' = Told /\ Newer' = Newer
        /\ \A f, k : From(f, k)' <=> From(f, k)
    BY <1>9 DEF Goes, Told, Newer, From
  <2> QED BY <1>3, <2>1 DEF RRInv
<1> QED BY <1>5, <1>6, <1>7, <1>8, <1>9 DEF LlmSteps, Goes

BatonInv == /\ QueueInv /\ PlaceInv /\ RawInv /\ EstInv /\ ValInv /\ WholeInv
            /\ PromptInv /\ CopyInv /\ RRInv /\ SleepInv

LEMMA BatonStart ==
  ASSUME NObjects = 4, Init
  PROVE  BatonInv
<1>1. /\ \A t \in Thread : pc[t] = "wait" /\ done[t] = 0
      /\ i = 0 /\ estimates = 0 /\ prompts = 0
      /\ \A o \in 1..4 : waiters[o] = <<>>
      /\ value[1] = 1 /\ value[2] = 0 /\ value[3] = 1 /\ value[4] = 0
  BY Handles DEF Init, InitialValues
<1>2. QueueInv /\ PlaceInv
  BY <1>1, Handles, ThreeThreads DEF QueueInv, PlaceInv
<1>3. ~SensorHas /\ ~EstimatorHas /\ ~Announces /\ ~LlmHas
  BY <1>1, ThreeThreads DEF SensorHas, EstimatorHas, Announces, LlmHas
<1>4. SensorNext = 0 /\ Announced(0)
  BY <1>1, ThreeThreads DEF SensorNext, Announced
<1>5. RawInv /\ EstInv
  BY <1>1, <1>3, <1>4 DEF RawInv, RawBaton, EstInv, OneOf
<1>6. ValInv /\ PromptInv /\ CopyInv /\ RRInv
  BY <1>1, <1>3, ThreeThreads
     DEF ValInv, FirstEstimate, PromptInv, Prompting, CopyInv, RRInv
<1>7. SleepInv
  BY <1>1 DEF SleepInv
<1>8. WholeInv
  <2>1. ASSUME NEW f \in Field
        PROVE  Rest(val[f], 0, {First[f]})
    <3>1. val[f][0 + 1] = End
      BY StringFacts DEF Init, Cell
    <3>2. \A c \in Nat : 0 < c /\ c <= 0 => val[f][c] \in {First[f]}
      OBVIOUS
    <3>3. 0 \in Nat /\ 0 <= Longest
      BY StringFacts
    <3> QED BY <3>1, <3>2, <3>3, RestIs
  <2> QED BY <2>1 DEF WholeInv
<1> QED BY <1>2, <1>5, <1>6, <1>7, <1>8 DEF BatonInv

LEMMA BatonStep ==
  ASSUME NObjects = 4, TypeInv, BatonInv, [Next]_vars
  PROVE  BatonInv'
<1>0. /\ DataOK /\ QueueInv /\ PlaceInv /\ RawInv /\ EstInv /\ ValInv /\ WholeInv
      /\ PromptInv /\ CopyInv /\ RRInv /\ SleepInv /\ SleepInv'
  BY DataKept, SleepStep DEF BatonInv
<1>1. CASE MayRun("sensor") /\ Sensor /\ policy' = policy
  <2>1. SensorSteps
    BY <1>0, <1>1, SensorPoints
  <2>2. PromptInv' /\ CopyInv'
    <3>1. /\ UNCHANGED <<val, First, prompt, prompts>> /\ Ahead' = Ahead
          /\ pc'["llm"] = pc["llm"] /\ done'["llm"] = done["llm"]
      BY <2>1, ThreeThreads DEF SensorSteps, Goes, Does, Ahead
    <3> QED BY <1>0, <3>1, PromptSame
  <2>3. WholeInv'
    BY <1>0, <2>1, WholeStep DEF SensorSteps
  <2> QED BY <1>0, <1>1, <2>1, <2>2, <2>3, QueueStep, RawSensor, EstSensor, ValSensor,
             RRSensor DEF BatonInv
<1>2. CASE MayRun("estimator") /\ Estimator /\ Leaves("estimator") /\ policy' = policy
  <2>1. EstimatorSteps
    BY <1>0, <1>2, EstimatorPoints
  <2>2. ASSUME pc["estimator"] = "work"
        PROVE  running' = "estimator"
    <3>1. UNCHANGED <<semVars, sleep>>
      BY <1>2, <2>2 DEF Estimator, GoesToSleep
    <3> QED BY <1>2, <3>1, Keeps
  <2>3. WholeInv' /\ PromptInv' /\ CopyInv'
    BY <1>0, <2>1, WholeStep, PromptEstimator
  <2> QED BY <1>0, <1>2, <2>1, <2>2, <2>3, QueueStep, RawEstimator, EstEstimator,
             ValEstimator, RREstimator DEF BatonInv
<1>3. CASE MayRun("llm") /\ Llm /\ Leaves("llm") /\ policy' = policy
  <2>1. LlmSteps /\ ~MidWork
    BY <1>0, <1>3, LlmPoints, NotMidWork
  <2>2. ASSUME pc["llm"] \in {"time", "work"}
        PROVE  running' = "llm"
    <3>1. UNCHANGED <<semVars, sleep>>
      BY <1>3, <2>2 DEF Llm, Prompt, Forward, Token, Respond, GoesToSleep
    <3> QED BY <1>3, <3>1, Keeps
  <2>3. PromptInv' /\ CopyInv'
    BY <1>0, <2>1, PromptLlm
  <2>4. WholeInv'
    BY <1>0, <2>1, WholeStep DEF LlmSteps
  <2>5. RRInv'
    BY <1>0, <1>3, <2>1, <2>2, RRLlm
  <2> QED BY <1>0, <2>1, <2>3, <2>4, <2>5, QueueStep, RawLlm, EstLlm, ValLlm DEF BatonInv
<1>4. CASE Tick \/ UNCHANGED vars
  <2>1. UNCHANGED <<policy, running, value, waiters, pc, done, i, raw, val, First, prompt,
                    estimates, prompts>>
    BY <1>4, FirstKept DEF Tick, vars, semVars, dataVars
  <2>2. PromptInv' /\ CopyInv'
    BY <1>0, <2>1, PromptSame DEF Ahead
  <2>3. QueueInv' /\ PlaceInv' /\ RawInv' /\ EstInv' /\ ValInv' /\ WholeInv'
    <3>1. QueueInv' /\ PlaceInv' /\ WholeInv'
      BY <1>0, <2>1 DEF QueueInv, PlaceInv, WholeInv
    <3>2. /\ RawBaton' = RawBaton /\ SensorNext' = SensorNext
          /\ SensorHas' = SensorHas /\ EstimatorHas' = EstimatorHas
          /\ \A t, n : DoneOf(t, n)' = DoneOf(t, n)
          /\ In(Measured, raw)' = In(Measured, raw)
          /\ In(Classified, First)' = In(Classified, First)
      BY <2>1 DEF RawBaton, OneOf, SensorHas, EstimatorHas, SensorNext, DoneOf, In
    <3>3. RawInv'
      BY <1>0, <2>1, <3>2 DEF RawInv
    <3>4. EstInv'
      BY <1>0, <2>1 DEF EstInv, OneOf, Announces, LlmHas, Announced
    <3>5. ValInv'
      <4>1. LlmHas' <=> LlmHas
        BY <2>1 DEF LlmHas
      <4> QED BY <1>0, <2>1, <3>2, <4>1, ValSame
    <3> QED BY <3>1, <3>3, <3>4, <3>5
  <2>4. RRInv'
    BY <1>0, <2>1 DEF RRInv, EstimatorHas, Ahead, From, Told, Newer, Current, Taken
  <2> QED BY <1>0, <2>2, <2>3, <2>4 DEF BatonInv
<1> QED BY <1>1, <1>2, <1>3, <1>4 DEF Next, Run

LEMMA BatonInvariant ==
  ASSUME NObjects = 4
  PROVE  Spec => []BatonInv
<1>1. Init => BatonInv
  BY BatonStart
<1>2. TypeInv /\ BatonInv /\ [Next]_vars => BatonInv'
  BY BatonStep
<1> QED BY <1>1, <1>2, TypeInvariant, PTL DEF Spec

\* Where the partition has room for the four semaphores, the estimator reads the
\* sensor's four variables of one sample, the next one, and makes whole strings of
\* it, however the three threads are scheduled (estimator_job against sensor_job).
THEOREM SamplesAlwaysWhole ==
  ASSUME NObjects = 4
  PROVE  Spec => []SampleWhole
<1>1. ASSUME TypeInv, BatonInv
      PROVE  SampleWhole
  <2> SUFFICES ASSUME pc["estimator"] \in {"work", "signal"}, "estimator" \notin Waiting
               PROVE  \A f \in Field :
                        /\ raw[f] = estimates
                        /\ pc["estimator"] = "signal" => StringOf(val[f], estimates)
    BY DEF SampleWhole
  <2>1. EstimatorHas /\ RawInv
    BY <1>1, Handles, SemaphoreNames, Unblocked DEF BatonInv, EstimatorHas
  <2>2. \A f \in Field : raw[f] = estimates
    BY <2>1, RawAll DEF RawInv
  <2>3. pc["estimator"] = "signal" => \A f \in Field : First[f] = estimates
    BY <2>1, ValAll DEF RawInv, DoneOf
  <2>4. ASSUME NEW f \in Field, First[f] = estimates
        PROVE  StringOf(val[f], estimates)
    <3>1. Rest(val[f], 0, {estimates}) /\ val[f][1] = estimates
      BY <1>1, <2>4 DEF BatonInv, WholeInv, First
    <3>2. PICK m \in Nat : /\ 0 <= m /\ m <= Longest /\ val[f][m + 1] = End
                           /\ \A c \in Nat : 0 < c /\ c <= m => val[f][c] \in {estimates}
      BY <3>1, RestHas
    <3>3. estimates # End
      BY <1>1, StringFacts DEF TypeInv, PipelineTypeOK
    <3>4. m # 0
      BY <3>1, <3>2, <3>3
    <3>5. m \in 1..Longest /\ \A c \in 1..m : val[f][c] = estimates
      BY <3>2, <3>4, StringFacts
    <3> QED BY <3>2, <3>5 DEF StringOf
  <2> QED BY <2>2, <2>3, <2>4
<1> QED BY <1>1, TypeInvariant, BatonInvariant, PTL

\* A prompt, copied byte by byte from strings that may change at any byte, has of
\* the estimate the model was told of up to some place and of the next one from
\* there on, with nothing but "unknown" besides in the one field that may be torn;
\* no copy misses the end of its string; and under round robin no field is torn
\* (llm_job and strcat against estimator_job, which has no semaphore between the
\* making of an estimate and the reading of the one before).
THEOREM PromptsAlwaysFresh ==
  ASSUME NObjects = 4
  PROVE  Spec => []PromptFresh
<1>1. ASSUME TypeInv, BatonInv
      PROVE  PromptFresh
  <2> SUFFICES ASSUME pc["llm"] \in {"forward", "token", "signal"}
               PROVE  /\ \A f \in Field :
                           /\ Len(prompt[f]) \in 1..Longest
                           /\ \A c \in 1..Len(prompt[f]) :
                                prompt[f][c] \in {prompts, NextIndex(prompts), Unknown}
                      /\ \A m, n \in 1..4 : m < n =>
                           From(Named[m], prompts) \/ From(Named[n], NextIndex(prompts))
                      /\ policy = "RR" => \E k \in {prompts, NextIndex(prompts)} :
                                            \A f \in Field : From(f, k)
    BY DEF PromptFresh
  <2>1. PromptInv /\ RRInv /\ Prompting /\ DataOK /\ \A n \in 1..4 : DoneOf("llm", n)
    BY <1>1, DataKept DEF BatonInv, Prompting, DoneOf
  <2>2. ASSUME NEW f \in Field
        PROVE  Len(prompt[f]) \in 1..Longest
    <3>1. PICK n \in 1..4 : Named[n] = f
      BY Orders
    <3>2. Len(prompt[f]) >= 1 /\ Len(prompt[f]) <= Longest
      BY <2>1, <3>1 DEF PromptInv
    <3> QED BY <2>1, <3>2, StringFacts DEF DataOK
  <2>3. \A f \in Field : \A c \in 1..Len(prompt[f]) :
          prompt[f][c] \in {prompts, NextIndex(prompts), Unknown}
    BY <2>1 DEF PromptInv, Told, Newer
  <2>4. \A m, n \in 1..4 : m < n =>
          From(Named[m], prompts) \/ From(Named[n], NextIndex(prompts))
    BY <2>1 DEF PromptInv, Told, Newer
  <2>5. policy = "RR" => \E k \in {prompts, NextIndex(prompts)} :
                           \A f \in Field : From(f, k)
    BY <2>1 DEF RRInv, Told, Newer
  <2> QED BY <2>2, <2>3, <2>4, <2>5
<1> QED BY <1>1, TypeInvariant, BatonInvariant, PTL
=============================================================================
