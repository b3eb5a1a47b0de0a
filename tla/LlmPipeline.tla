----------------------------- MODULE LlmPipeline -----------------------------
(***************************************************************************)
(* The language-model demonstration, examples/llm_demo/pr1: a sensor, an   *)
(* estimator and a language model, three threads that hand data on through *)
(* shared variables and four semaphores, and the model's generation loop   *)
(* with its deadline (main.c and activity.c).                              *)
(*                                                                         *)
(* A step is one access to a shared variable, one system call, one layer   *)
(* of the network or one token.  A sample is its number i.  The estimator  *)
(* turns each field of a sample into a string; a character of it is the    *)
(* sample it was made from.  Semaphores are those of LockObj, with the     *)
(* default discipline FIFO and no timeouts.                                *)
(***************************************************************************)
EXTENDS Integers, Sequences, FiniteSets

CONSTANTS
  Policies,       \* "RR": no budgets, a thread runs until it blocks;
                  \* "STATIC": of the ready threads one of highest priority
  NObjects,       \* lock objects of the partition
  MaxIndex,       \* max of sensor_job
  Longest,        \* the characters of the longest class
  Placeholder,    \* the characters of "unknown"
  Lengths,        \* the numbers of characters the classes of a field may have
  Layers,         \* n_layers of the network
  Steps,          \* the steps generate is given
  PromptTokens,   \* what encode makes of a prompt
  Deadline        \* of a response, in ticks

Thread == {"sensor", "estimator", "llm"}
Priority == [t \in Thread |-> IF t = "llm" THEN 40 ELSE 42]
SleepOf == [t \in Thread |-> IF t = "llm" THEN 5 ELSE 1]
Nobody == "nobody"
Semaphores == <<"raw_empty", "raw_full", "est_empty", "est_full">>
Object == 1..NObjects

\* The fields of a sample in the order the sensor measures them, the estimator
\* classifies them, and the prompt names them.
Field == {"temp", "humidity", "pressure", "wind"}
Measured == <<"temp", "humidity", "pressure", "wind">>
Classified == <<"temp", "pressure", "humidity", "wind">>
Named == <<"temp", "pressure", "wind", "humidity">>

Index == 0..MaxIndex
Nothing == -1
NextIndex(k) == IF k = MaxIndex THEN 0 ELSE k + 1

\* What a byte of a string holds besides a sample's number.
End == Nothing            \* the terminating 0; static memory starts with it
Unknown == -2             \* a character of "unknown"
Cell == 1 .. Longest + 1

ASSUME PipelineAssumption ==
  /\ Policies \subseteq {"RR", "STATIC"}
  /\ NObjects \in 1..4
  /\ MaxIndex \in Nat /\ MaxIndex >= 2
  /\ Longest \in Nat \ {0} /\ Placeholder \in 1..Longest
  /\ Lengths \in [Field -> SUBSET (1..Longest) \ {{}}]
  /\ Layers \in Nat \ {0} /\ Steps \in Nat \ {0} /\ PromptTokens \in Nat \ {0}
  /\ Deadline \in Nat

VARIABLES
  policy,         \* sched_func of the partition
  running,        \* the thread that has the processor
  value, waiters, \* of each semaphore object
  pc,             \* where each thread is
  done,           \* the fields each thread has done there
  sleep,          \* the ticks each thread still sleeps
  i,              \* of sensor_job
  raw,            \* temp, humidity, pressure, wind_speed
  val,            \* temp_val, humidity_val, pressure_val, wind_val
  prompt,         \* g_prompt_buffer: what it has of each field
  left,           \* the ticks to deadline_us
  deadline_exceeded,
  pos, layer,     \* of generate and forward
  \* History:
  estimates,      \* the number of the sample the estimator comes to next
  prompts,        \* the number of the estimate the model was told of last
  late            \* layers of the response that ended past its deadline

semVars == <<value, waiters>>
dataVars == <<i, raw, val, prompt>>
generateVars == <<left, deadline_exceeded, pos, layer, late>>
vars == <<policy, running, semVars, pc, done, sleep, dataVars, generateVars,
          estimates, prompts>>

-----------------------------------------------------------------------------
\* pok_sem_create gives a name the first free lock object; when there is none
\* the name keeps 0, the first object of the partition.
Handle == [s \in {Semaphores[n] : n \in 1..4} |->
             LET n == CHOOSE n \in 1..4 : Semaphores[n] = s
             IN IF n <= NObjects THEN n ELSE 1]

InitialValuesFull ==   \* mutant: raw_full starts as raw_empty does
  [o \in Object |-> IF o <= 3 THEN 1 ELSE 0]

InitialValues == [o \in Object |-> IF o \in {1, 3} THEN 1 ELSE 0]

Nowhere == [f \in Field |-> Nothing]
EmptyPrompt == [f \in Field |-> <<>>]

\* strcpy of n characters x over the bytes of old.
Strcpy(old, x, n) ==
  [c \in Cell |-> IF c <= n THEN x ELSE IF c = n + 1 THEN End ELSE old[c]]

Init ==
  /\ policy \in Policies
  /\ running = Nobody
  /\ value = InitialValues
  /\ waiters = [o \in Object |-> <<>>]
  /\ pc = [t \in Thread |-> "wait"]
  /\ done = [t \in Thread |-> 0]
  /\ sleep = [t \in Thread |-> 0]
  /\ i = 0
  /\ raw = Nowhere /\ prompt = EmptyPrompt
  /\ val = [f \in Field |-> [c \in Cell |-> End]]
  /\ left = 0 /\ deadline_exceeded = FALSE
  /\ pos = 0 /\ layer = 0
  /\ estimates = 0 /\ prompts = 0 /\ late = 0

Waiting == UNION {{waiters[o][n] : n \in 1..Len(waiters[o])} : o \in Object}
Ready == {t \in Thread : t \notin Waiting /\ sleep[t] = 0}

MayRunAny(t) == t \in Ready   \* mutant: threads are interleaved at will

\* The election.
MayRun(t) ==
  /\ t \in Ready
  /\ policy = "RR" => running \in {t, Nobody}
  /\ policy = "STATIC" => \A u \in Ready : Priority[u] <= Priority[t]

GoTo(t, where) == pc' = [pc EXCEPT ![t] = where]

\* pok_sem_wait with timeout 0, which waits for ever.
Wait(t, s) ==
  LET o == Handle[s]
  IN IF value[o] > 0
     THEN value' = [value EXCEPT ![o] = @ - 1] /\ UNCHANGED waiters
     ELSE waiters' = [waiters EXCEPT ![o] = Append(@, t)] /\ UNCHANGED value

\* pok_sem_signal; the maximum is 1.
Signal(s) ==
  LET o == Handle[s]
  IN IF value[o] = 0 /\ waiters[o] # <<>>
     THEN waiters' = [waiters EXCEPT ![o] = Tail(@)] /\ UNCHANGED value
     ELSE value' = [value EXCEPT ![o] = 1] /\ UNCHANGED waiters

\* Thread t, at pc "work", does field f, and the next one after it.
Works(t, order, f) ==
  /\ pc[t] = "work"
  /\ f = order[done[t] + 1]
  /\ done' = [done EXCEPT ![t] = (@ + 1) % 4]

GoesToSleep(t) ==
  /\ pc[t] = "sleep"
  /\ GoTo(t, "wait")
  /\ sleep' = [sleep EXCEPT ![t] = SleepOf[t]]

\* sensor_job
Sensor ==
  /\ UNCHANGED <<val, prompt, generateVars, estimates, prompts>>
  /\ \/ /\ pc["sensor"] = "wait"
        /\ Wait("sensor", "raw_empty")
        /\ GoTo("sensor", "work")
        /\ UNCHANGED <<done, sleep, i, raw>>
     \/ \E f \in Field :
          /\ Works("sensor", Measured, f)
          /\ raw' = [raw EXCEPT ![f] = i]
          /\ IF done["sensor"] = 3 THEN GoTo("sensor", "signal") ELSE UNCHANGED pc
          /\ UNCHANGED <<semVars, sleep, i>>
     \/ /\ pc["sensor"] = "signal"
        /\ Signal("raw_full")
        /\ GoTo("sensor", "sleep")
        /\ UNCHANGED <<done, sleep, i, raw>>
     \/ /\ GoesToSleep("sensor")
        /\ i' = NextIndex(i)
        /\ UNCHANGED <<semVars, done, raw>>

\* estimator_job.  It makes the new estimate before it waits for the model to
\* have taken the last one.  It writes a string twice, in one step: it is ready
\* until it has written all, so the model, the only reader, does not run.
Estimator ==
  /\ UNCHANGED <<i, raw, prompt, generateVars, prompts>>
  /\ \/ /\ pc["estimator"] = "wait"
        /\ Wait("estimator", "raw_full")
        /\ GoTo("estimator", "work")
        /\ UNCHANGED <<done, sleep, val, estimates>>
     \/ \E f \in Field : \E n \in Lengths[f] :
          /\ Works("estimator", Classified, f)
          /\ val' = [val EXCEPT ![f] = Strcpy(Strcpy(@, Unknown, Placeholder), raw[f], n)]
          /\ IF done["estimator"] = 3 THEN GoTo("estimator", "signal")
                                      ELSE UNCHANGED pc
          /\ UNCHANGED <<semVars, sleep, estimates>>
     \/ /\ pc["estimator"] = "signal"
        /\ Signal("raw_empty")
        /\ estimates' = NextIndex(estimates)
        /\ GoTo("estimator", "offer")
        /\ UNCHANGED <<done, sleep, val>>
     \/ /\ pc["estimator"] = "offer"
        /\ Wait("estimator", "est_empty")
        /\ GoTo("estimator", "announce")
        /\ UNCHANGED <<done, sleep, val, estimates>>
     \/ /\ pc["estimator"] = "announce"
        /\ Signal("est_full")
        /\ GoTo("estimator", "sleep")
        /\ UNCHANGED <<done, sleep, val, estimates>>
     \/ /\ GoesToSleep("estimator")
        /\ UNCHANGED <<semVars, done, val, estimates>>

\* The byte that strcat comes to next in field f.  It loads a byte once, and
\* copies what it has tested (common-x86.mk compiles with -O).
NextChar(f) == val[f][Len(prompt[f]) + 1]

\* llm_job, up to the prompt.  strcat takes the bytes one by one, and the
\* thread may be preempted between any two.
Prompt ==
  /\ UNCHANGED <<sleep, i, raw, val, estimates, prompts>>
  /\ \/ /\ pc["llm"] = "wait"
        /\ Wait("llm", "est_full")
        /\ GoTo("llm", "time")
        /\ UNCHANGED <<done, prompt, generateVars>>
     \/ /\ pc["llm"] = "time"
        /\ left' = Deadline
        /\ deadline_exceeded' = FALSE
        /\ late' = 0
        /\ prompt' = EmptyPrompt
        /\ GoTo("llm", "work")
        /\ UNCHANGED <<semVars, done, pos, layer>>
     \/ \E f \in Field :
          /\ pc["llm"] = "work" /\ f = Named[done["llm"] + 1]
          /\ NextChar(f) # End
          /\ prompt' = [prompt EXCEPT ![f] = Append(@, NextChar(f))]
          /\ UNCHANGED <<semVars, pc, done, generateVars>>
     \/ \E f \in Field :
          /\ Works("llm", Named, f)
          /\ NextChar(f) = End
          /\ IF done["llm"] < 3
             THEN UNCHANGED <<pc, generateVars>>
             ELSE /\ GoTo("llm", "forward")
                  /\ deadline_exceeded' = FALSE /\ pos' = 0 /\ layer' = 0
                  /\ UNCHANGED <<left, late>>
          /\ UNCHANGED <<semVars, prompt>>

\* A layer of forward, and the look at the clock behind it.
Forward ==
  /\ pc["llm"] = "forward"
  /\ IF left = 0
     THEN /\ deadline_exceeded' = TRUE /\ late' = late + 1
          /\ GoTo("llm", "token")
          /\ UNCHANGED layer
     ELSE /\ layer' = layer + 1
          /\ IF layer + 1 = Layers THEN GoTo("llm", "token") ELSE UNCHANGED pc
          /\ UNCHANGED <<deadline_exceeded, late>>
  /\ UNCHANGED <<semVars, done, sleep, dataVars, left, pos, estimates, prompts>>

\* Mutant: the response is not truncated.
TokenAnyway ==
  /\ pc["llm"] = "token"
  /\ pos' = pos + 1
  /\ \/ pos + 1 < Steps /\ GoTo("llm", "forward") /\ layer' = 0
     \/ (pos + 1 = Steps \/ pos >= PromptTokens - 1)
        /\ GoTo("llm", "signal") /\ UNCHANGED layer
  /\ UNCHANGED <<semVars, done, sleep, dataVars, left, deadline_exceeded, late,
                 estimates, prompts>>

\* generate behind forward: one more token, after which it goes on, or stops
\* as the steps are over or, behind the prompt, as the token is BOS.
Token ==
  /\ pc["llm"] = "token"
  /\ \/ /\ deadline_exceeded
        /\ GoTo("llm", "signal")
        /\ UNCHANGED <<pos, layer>>
     \/ /\ ~deadline_exceeded
        /\ pos' = pos + 1
        /\ \/ pos + 1 < Steps /\ GoTo("llm", "forward") /\ layer' = 0
           \/ /\ pos + 1 = Steps \/ pos >= PromptTokens - 1
              /\ GoTo("llm", "signal")
              /\ UNCHANGED layer
  /\ UNCHANGED <<semVars, done, sleep, dataVars, left, deadline_exceeded, late,
                 estimates, prompts>>

\* Mutant: the semaphore the model waits for is signalled.
RespondToItself ==
  /\ UNCHANGED <<done, dataVars, generateVars, estimates>>
  /\ \/ /\ pc["llm"] = "signal"
        /\ Signal("est_full")
        /\ prompts' = NextIndex(prompts)
        /\ GoTo("llm", "sleep")
        /\ UNCHANGED sleep
     \/ /\ GoesToSleep("llm")
        /\ UNCHANGED <<semVars, prompts>>

\* llm_job behind generate.
Respond ==
  /\ UNCHANGED <<done, dataVars, generateVars, estimates>>
  /\ \/ /\ pc["llm"] = "signal"
        /\ Signal("est_empty")
        /\ prompts' = NextIndex(prompts)
        /\ GoTo("llm", "sleep")
        /\ UNCHANGED sleep
     \/ /\ GoesToSleep("llm")
        /\ UNCHANGED <<semVars, prompts>>

Llm == Prompt \/ Forward \/ Token \/ Respond

\* Thread t keeps the processor, or blocks and leaves it.
Leaves(t) == running' = IF t \in Ready' THEN t ELSE Nobody

Run ==
  /\ \/ MayRun("sensor") /\ Sensor /\ Leaves("sensor")
     \/ MayRun("estimator") /\ Estimator /\ Leaves("estimator")
     \/ MayRun("llm") /\ Llm /\ Leaves("llm")
  /\ UNCHANGED policy

Tick ==
  /\ left > 0 \/ \E t \in Thread : sleep[t] > 0
  /\ left' = IF left > 0 THEN left - 1 ELSE 0
  /\ sleep' = [t \in Thread |-> IF sleep[t] > 0 THEN sleep[t] - 1 ELSE 0]
  /\ UNCHANGED <<policy, running, semVars, pc, done, dataVars, deadline_exceeded,
                 pos, layer, late, estimates, prompts>>

Next == Run \/ Tick

\* Time passes, and a processor that has a thread to run runs one: no more is
\* needed of the scheduler, not even that it is fair to a thread.
Spec == Init /\ [][Next]_vars /\ WF_vars(Run) /\ WF_vars(Tick)

-----------------------------------------------------------------------------
PipelineTypeOK ==
  /\ policy \in Policies
  /\ running \in Thread \cup {Nobody}
  /\ value \in [Object -> 0..1]
  /\ waiters \in [Object -> Seq(Thread)]
  /\ pc \in [Thread -> {"wait", "work", "signal", "offer", "announce", "time",
                        "forward", "token", "sleep"}]
  /\ done \in [Thread -> 0..3]
  /\ sleep \in [Thread -> 0..5]
  /\ i \in Index
  /\ raw \in [Field -> Index \cup {Nothing}]
  /\ val \in [Field -> [Cell -> Index \cup {End, Unknown}]]
  /\ prompt \in [Field -> Seq(Index \cup {Unknown})]
  /\ left \in 0..Deadline
  /\ deadline_exceeded \in BOOLEAN
  /\ pos \in 0..Steps /\ layer \in 0..Layers
  /\ estimates \in Index /\ prompts \in Index
  /\ late \in Nat

\* A string of estimate k: one character at least, all of k, and the end.
StringOf(s, k) ==
  \E n \in 1..Longest : s[n + 1] = End /\ \A c \in 1..n : s[c] = k

\* The estimator classifies every sample once, in their order, and each whole:
\* while it reads the sensor's variables they are of one sample, the next one,
\* and the sensor does not touch them, whichever of the two runs first.
SampleWhole ==
  pc["estimator"] \in {"work", "signal"} /\ "estimator" \notin Waiting =>
    \A f \in Field :
      /\ raw[f] = estimates
      /\ pc["estimator"] = "signal" => StringOf(val[f], estimates)

\* All that the prompt has of field f is of estimate k.
From(f, k) == \A c \in 1..Len(prompt[f]) : prompt[f][c] = k

\* A prompt is of the estimate the model was told of, up to some character, and
\* of the one after it from there on: the estimator, which does not wait for
\* the model before it makes a new estimate, overtakes it once at most.  So one
\* field at most is torn.  It holds nothing but characters of these two and,
\* when the new string is shorter than what was copied, of "unknown".  No copy
\* misses the end of a string that changes under it.  Where threads run until
\* they block, no field is torn and the prompt is of one of the two.
PromptFresh ==
  pc["llm"] \in {"forward", "token", "signal"} =>
    /\ \A f \in Field :
         /\ Len(prompt[f]) \in 1..Longest
         /\ \A c \in 1..Len(prompt[f]) :
              prompt[f][c] \in {prompts, NextIndex(prompts), Unknown}
    /\ \A m, n \in 1..4 : m < n =>
         From(Named[m], prompts) \/ From(Named[n], NextIndex(prompts))
    /\ policy = "RR" =>
         \E k \in {prompts, NextIndex(prompts)} : \A f \in Field : From(f, k)

\* At most one layer of a response ends past its deadline, the one under way
\* when the time is over, and no token comes of a pass that stopped there.
GenerationStops ==
  [][late' <= 1 /\ (pos' > pos => layer = Layers)]_vars

\* Samples never cease to be measured, nor to be estimated, nor the model to
\* answer: the semaphores lose no thread and leave none behind.
PipelineFlows == \A t \in Thread : []<>(pc[t] = "sleep")
=============================================================================
