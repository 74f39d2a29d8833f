------------------------------ MODULE Profiler ------------------------------
(***************************************************************************)
(* The profiler of packages/profiler: a compiler middleware that cuts each  *)
(* function of a Wasm module into code blocks and surrounds every block     *)
(* with calls of start_measurement and take_measurement, the table of       *)
(* measurements those calls fill, and the program that calls the            *)
(* instrumented contract in a warm-up round and in a measured round.        *)
(*                                                                          *)
(* A function body is a sequence of operators.  An operator is a record     *)
(* [symbol, to]: `to' has, for an operator that moves control, the places   *)
(* behind which execution may go on (the loop header, else or end that the  *)
(* validated Wasm code names, or those of a br_table) and, for a call, the  *)
(* functions that may be called (those of the table for a call_indirect).   *)
(* A block is known by its operator symbols: the 64 bit hash of the code is *)
(* taken to have no collisions.  A point in time is the serial number of    *)
(* the start that recorded it.                                              *)
(***************************************************************************)
EXTENDS Integers, Sequences

CONSTANTS Bodies,      \* the functions of the profiled module
          MaxClock     \* bound: measurements started in one execution

\* The operators behind which a jump goes on.
Targets == {"Loop", "End", "Else"}

\* Wasm validation: control goes on behind a loop header, an else or an end,
\* and a body is closed by its end.
ASSUME BodiesAssumption ==
    \A f \in DOMAIN Bodies :
        /\ Bodies[f] \in Seq([symbol : STRING, to : SUBSET Nat]) /\ Bodies[f] # <<>>
        /\ Bodies[f][Len(Bodies[f])].symbol = "End"
        /\ \A i \in DOMAIN Bodies[f] :
             LET o == Bodies[f][i]
             IN  /\ o.symbol \in {"Br", "BrTable", "BrIf", "If", "Else"} =>
                      \A to \in o.to : to \in DOMAIN Bodies[f] /\ Bodies[f][to].symbol \in Targets
                 /\ o.symbol \in {"Call", "CallIndirect"} => o.to \subseteq DOMAIN Bodies

VARIABLES
    started,    \* started[f]: the queue of start times of function f
    taken,      \* the measurements [block, exact] taken
    block_store,\* the registered blocks
    stack,      \* the activations [fn, pc, start], the running one last
    clock,      \* starts so far
    phase,      \* "instrument", "warmup", "profiling" or "reported"
    panicked,   \* a measurement call or the report panicked
    skipped     \* since the last clear an If has jumped over its branch

profilerVars == <<started, taken, block_store, stack, clock, phase, panicked, skipped>>

-----------------------------------------------------------------------------
(* Instrumentation *)

\* From<&Operator> for OperatorSymbol: the operands are dropped.
OperatorSymbol(operator) == operator.symbol

\* A seeded defect: loop headers do not close a block.
BlockEndsButLoop == {"End", "Else", "Br", "BrTable", "BrIf", "Call", "CallIndirect", "Return"}

\* The operators at which feed closes the current block.
BlockEnds == {"Loop", "End", "Else", "Br", "BrTable", "BrIf", "Call", "CallIndirect", "Return"}

\* FunctionMiddleware::feed.  Emitted code: [at |-> i] is operator i of the
\* body, [at |-> 0, block |-> <<>>] a call of start_measurement and
\* [at |-> 0, block |-> b] one of take_measurement for block b.  block_count is
\* never incremented, so the calls of all blocks of a function pass the same
\* pair (fn_index, 0).
feed(fed, operator, i) ==
    IF operator.symbol \in BlockEnds
    THEN [ops |-> <<>>,
          code |-> fed.code
                   \o (IF fed.ops = <<>> THEN <<>> ELSE <<[at |-> 0, block |-> fed.ops]>>)
                   \o <<[at |-> i, block |-> <<>>]>>,
          blocks |-> IF fed.ops = <<>> THEN fed.blocks ELSE fed.blocks \cup {fed.ops}]
    ELSE [ops |-> Append(fed.ops, OperatorSymbol(operator)),
          code |-> fed.code
                   \o (IF fed.ops = <<>> THEN <<[at |-> 0, block |-> <<>>]>> ELSE <<>>)
                   \o <<[at |-> i, block |-> <<>>]>>,
          blocks |-> fed.blocks]

\* FunctionProfiling::new and the compiler's walk over one function.
FunctionProfiling(f) ==
    LET fed[i \in 0 .. Len(Bodies[f])] ==
          IF i = 0 THEN [ops |-> <<>>, code |-> <<>>, blocks |-> {}]
          ELSE feed(fed[i - 1], Bodies[f][i], i)
    IN  fed[Len(Bodies[f])]

Code(f) == FunctionProfiling(f).code

\* The place in the emitted code behind operator i of the body.
Behind(f, i) == 1 + CHOOSE p \in DOMAIN Code(f) : Code(f)[p].at = i

-----------------------------------------------------------------------------
(* Measurements *)

\* Module::instrument: every function is fed through the middleware; the blocks
\* are registered while the code is compiled.
instrument ==
    /\ phase = "instrument"
    /\ phase' = "warmup"
    /\ block_store' = UNION {FunctionProfiling(f).blocks : f \in DOMAIN Bodies}
    /\ UNCHANGED <<started, taken, stack, clock, panicked, skipped>>

Running == stack # <<>> /\ ~panicked
Frame == stack[Len(stack)]
Instr == Code(Frame.fn)[Frame.pc]
GoTo(pc) == stack' = [stack EXCEPT ![Len(stack)].pc = pc]
Leave == stack' = SubSeq(stack, 1, Len(stack) - 1)

\* A jump behind operator i; behind the end of the body the activation is over.
GoBehind(i) == IF i = Len(Bodies[Frame.fn]) THEN Leave ELSE GoTo(Behind(Frame.fn, i))

start_measurement ==
    /\ Running /\ Instr.at = 0 /\ Instr.block = <<>>
    /\ clock < MaxClock
    /\ clock' = clock + 1
    /\ started' = [started EXCEPT ![Frame.fn] = Append(@, clock')]
    /\ stack' = [stack EXCEPT ![Len(stack)].pc = @ + 1, ![Len(stack)].start = clock']
    /\ UNCHANGED <<taken, block_store, phase, panicked, skipped>>

\* The oldest start of the function is taken; `exact' remembers whether it is
\* the start that this activation made for this block.
take_measurement ==
    /\ Running /\ Instr.at = 0 /\ Instr.block # <<>>
    /\ LET q == started[Frame.fn]
       IN  IF q = <<>>
           THEN /\ panicked' = TRUE
                /\ UNCHANGED <<started, taken, stack>>
           ELSE /\ started' = [started EXCEPT ![Frame.fn] = Tail(q)]
                /\ taken' = taken \cup {[block |-> Instr.block,
                                         exact |-> Head(q) = Frame.start]}
                /\ GoTo(Frame.pc + 1)
                /\ UNCHANGED panicked
    /\ UNCHANGED <<block_store, clock, phase, skipped>>

\* Measurements::clear, between the two rounds.
clear ==
    /\ stack = <<>> /\ ~panicked /\ phase = "warmup"
    /\ started' = [f \in DOMAIN Bodies |-> <<>>]
    /\ taken' = {}
    /\ phase' = "profiling"
    /\ skipped' = FALSE
    /\ UNCHANGED <<block_store, stack, clock, panicked>>

\* Measurements::compile_csv looks every measured block up in the store.
compile_csv ==
    /\ stack = <<>> /\ ~panicked /\ phase = "profiling"
    /\ phase' = "reported"
    /\ panicked' = \E m \in taken : m.block \notin block_store
    /\ UNCHANGED <<started, taken, block_store, stack, clock, skipped>>

-----------------------------------------------------------------------------
(* The profiled program *)

\* call_things: an entry point of the contract is called.
call_things(f) ==
    /\ stack = <<>> /\ ~panicked /\ phase \in {"warmup", "profiling"}
    /\ clock < MaxClock
    /\ stack' = <<[fn |-> f, pc |-> 1, start |-> 0]>>
    /\ UNCHANGED <<started, taken, block_store, clock, phase, panicked, skipped>>

\* The virtual machine executes an operator of the body.  A call that could
\* not start another measurement within the bound is not taken.
Operate ==
    /\ Running /\ Instr.at # 0
    /\ LET f == Frame.fn
           o == Bodies[f][Instr.at]
           next == Frame.pc + 1
       IN  \/ /\ o.symbol \in {"BrIf", "If"}
              /\ \/ GoTo(next) /\ UNCHANGED skipped
                 \/ /\ \E to \in o.to : GoBehind(to)
                    /\ skipped' = (skipped \/ o.symbol = "If")
           \/ /\ o.symbol \in {"Br", "BrTable", "Else"}
              /\ \E to \in o.to : GoBehind(to)
              /\ UNCHANGED skipped
           \/ /\ o.symbol \in {"Call", "CallIndirect"}
              /\ clock < MaxClock
              /\ \E to \in o.to :
                   stack' = Append([stack EXCEPT ![Len(stack)].pc = next],
                                   [fn |-> to, pc |-> 1, start |-> 0])
              /\ UNCHANGED skipped
           \/ /\ o.symbol = "Return" \/ Instr.at = Len(Bodies[f])
              /\ Leave
              /\ UNCHANGED skipped
           \/ /\ o.symbol \notin {"BrIf", "If", "Br", "BrTable", "Else", "Call", "CallIndirect",
                                  "Return"}
              /\ Instr.at < Len(Bodies[f])
              /\ GoTo(next)
              /\ UNCHANGED skipped
    /\ UNCHANGED <<started, taken, block_store, clock, phase, panicked>>

ProfilerInit ==
    /\ started = [f \in DOMAIN Bodies |-> <<>>]
    /\ taken = {} /\ block_store = {} /\ stack = <<>>
    /\ clock = 0 /\ phase = "instrument"
    /\ panicked = FALSE /\ skipped = FALSE

ProfilerNext ==
    \/ instrument
    \/ \E f \in DOMAIN Bodies : call_things(f)
    \/ start_measurement
    \/ take_measurement
    \/ Operate
    \/ clear
    \/ compile_csv

ProfilerSpec == ProfilerInit /\ [][ProfilerNext]_profilerVars

-----------------------------------------------------------------------------
(* Properties *)

\* take_measurement and compile_csv unwrap what they look up.  However the
\* control of the profiled functions moves, through loops, branches, recursion
\* and Ifs whose branch is jumped over, every measurement taken was started and
\* every block reported is in the store: the profiler never panics.
MeasurementsWereStarted == ~panicked

\* The queue of a function has one entry at most and the entry taken is the one
\* made at the head of the same block in the same activation, recursive calls
\* included, as long as no If has jumped over its branch: blocks are closed at
\* every other operator that moves control.
StraightMeasurementsAreExact ==
    ~skipped => /\ \A m \in taken : m.exact
                /\ \A f \in DOMAIN Bodies : Len(started[f]) <= 1
                /\ stack = <<>> => \A f \in DOMAIN Bodies : started[f] = <<>>

\* Every measurement taken belongs to a start that was recorded, and of code
\* without such an If to the start of the same block.
MeasurementsAreTaken == MeasurementsWereStarted /\ StraightMeasurementsAreExact
=============================================================================
