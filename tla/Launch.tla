-------------------------------- MODULE Launch --------------------------------
(***************************************************************************)
(* The start of the venue process (venue/main.cpp and Server::setupListen):*)
(* the environment, the command line, the size of the order pool, and the  *)
(* listening socket, up to the event loop that Server models. The numbers  *)
(* of the code (2^64, 65535, 3600000, 64) are constants, small for TLC.    *)
(***************************************************************************)
EXTENDS Integers

CONSTANTS Modulus,        \* 2^64: uint64_t and std::size_t
          MaxPort,        \* 65535
          MaxHeartbeat,   \* 3600000
          Headroom,       \* 64
          Numerals,       \* the numbers that texts on the command line may write
          MaxOptions      \* options read at most

ASSUME LaunchAssumption ==
    /\ Modulus \in Nat /\ Headroom \in 1..Modulus
    /\ MaxPort \in 1..(Modulus - 1) /\ MaxHeartbeat \in 1..(Modulus - 1)
    /\ Numerals \subseteq Nat /\ MaxOptions \in Nat

VARIABLES phase,    \* env, options, construct, a step of setupListen, serving, exited
          options,  \* options read so far
          port, capacity, heartbeatMs,
          exitCode

vars == <<phase, options, port, capacity, heartbeatMs, exitCode>>

\* The defaults: any valid values.
Init ==
    /\ phase = "env" /\ options = 0
    /\ port = 1 /\ capacity = 1 /\ heartbeatMs = 1
    /\ exitCode = -1

\* A text: a number with or without a sign, or one that is not a number (empty,
\* with trailing characters, another option, or missing).
Texts == [number : {TRUE}, negative : BOOLEAN, n : Numerals] \cup {[number |-> FALSE]}

Bad == -1

\* parseU64. strtoull stops at the largest value, and negates modulo 2^64.
ParseU64(text) ==
    IF ~text.number THEN Bad
    ELSE IF text.n >= Modulus THEN Modulus - 1
    ELSE IF text.negative THEN (Modulus - text.n) % Modulus ELSE text.n

Exit(code) == /\ phase' = "exited" /\ exitCode' = code
              /\ UNCHANGED <<options, port, capacity, heartbeatMs>>

\* getenv("VENUE_PORT"), unset or a text.
ReadEnv ==
    /\ phase = "env"
    /\ \/ /\ phase' = "options"
          /\ UNCHANGED <<options, port, capacity, heartbeatMs, exitCode>>
       \/ \E text \in Texts :
             LET v == ParseU64(text)
             IN IF v > 0 /\ v <= MaxPort
                THEN /\ phase' = "options" /\ port' = v
                     /\ UNCHANGED <<options, capacity, heartbeatMs, exitCode>>
                ELSE Exit(2)

\* An option with a value is taken: the loop goes on.
Take == /\ phase = "options" /\ options < MaxOptions
        /\ options' = options + 1
        /\ UNCHANGED <<phase, exitCode>>

ReadPort(text) ==
    LET v == ParseU64(text)
    IN IF v \in {Bad, 0} \/ v > MaxPort THEN phase = "options" /\ Exit(2)
       ELSE Take /\ port' = v /\ UNCHANGED <<capacity, heartbeatMs>>

ReadCapacity(text) ==
    LET v == ParseU64(text)
    IN IF v \in {Bad, 0} THEN phase = "options" /\ Exit(2)
       ELSE Take /\ capacity' = v /\ UNCHANGED <<port, heartbeatMs>>

\* A --heartbeat-ms without an upper limit.
Mut_ReadHeartbeat(text) ==
    LET v == ParseU64(text)
    IN IF v \in {Bad, 0} THEN phase = "options" /\ Exit(2)
       ELSE Take /\ heartbeatMs' = v /\ UNCHANGED <<port, capacity>>

ReadHeartbeat(text) ==
    LET v == ParseU64(text)
    IN IF v \in {Bad, 0} \/ v > MaxHeartbeat THEN phase = "options" /\ Exit(2)
       ELSE Take /\ heartbeatMs' = v /\ UNCHANGED <<port, capacity>>

\* --help, or a word that is no option.
ReadOther == phase = "options" /\ \E code \in {0, 2} : Exit(code)

EndOfOptions ==
    /\ phase = "options" /\ phase' = "construct"
    /\ UNCHANGED <<options, port, capacity, heartbeatMs, exitCode>>

SoftCap == capacity

\* A pool of exactly the orders admitted.
Mut_BookCapacity == SoftCap

BookCapacity == (SoftCap + Headroom) % Modulus

\* Server's constructor allocates the pool. An allocation that fails, or a pool
\* of no orders (order_pool.cpp writes before its array), aborts the process.
Construct ==
    /\ phase = "construct"
    /\ \/ /\ BookCapacity > 0 /\ phase' = "socket"
          /\ UNCHANGED <<options, port, capacity, heartbeatMs, exitCode>>
       \/ Exit(134)

After(step) == [socket |-> "bind", bind |-> "listen", listen |-> "fcntl", fcntl |-> "serving"][step]

\* The system calls of setupListen, each of which may fail; run then returns 1.
SetupListen ==
    /\ phase \in {"socket", "bind", "listen", "fcntl"}
    /\ \/ /\ phase' = After(phase)
          /\ UNCHANGED <<options, port, capacity, heartbeatMs, exitCode>>
       \/ Exit(1)

\* poll fails in the event loop; the loop has no other end.
PollFails == phase = "serving" /\ Exit(1)

Next ==
    \/ ReadEnv
    \/ \E text \in Texts : ReadPort(text) \/ ReadCapacity(text) \/ ReadHeartbeat(text)
    \/ ReadOther \/ EndOfOptions \/ Construct \/ SetupListen \/ PollFails

Spec == Init /\ [][Next]_vars

-----------------------------------------------------------------------------
Serving == phase = "serving"

\* However the options and the environment are combined and repeated, signs and
\* numbers too large for the type included, a venue that serves has a port and a
\* heartbeat period that survive the casts to uint16_t and int, admits orders, and
\* "Leave[s] pool headroom for an incoming order beyond the admitted live-order
\* cap" (main.cpp), which Venue's PoolBounded rests on. Only a capacity in the last
\* 64 values of the type, which "-1" writes, wraps the pool's size below the cap.
ServesValidConfig ==
    Serving =>
        /\ port \in 1..MaxPort /\ heartbeatMs \in 1..MaxHeartbeat /\ capacity \in 1..(Modulus - 1)
        /\ SoftCap < Modulus - Headroom => BookCapacity > SoftCap
=============================================================================
