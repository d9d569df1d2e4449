----------------------------- MODULE LaunchProofs -----------------------------
(***************************************************************************)
(* The configuration of a venue that serves, for integers of any width and *)
(* any text on the command line. Every value that is kept has passed its   *)
(* test, so the ranges hold from the start on (ConfigOK); what is left is  *)
(* that parseU64 stays within the type and that the sum of the cap and the *)
(* headroom only wraps for the last values of the type.                    *)
(***************************************************************************)
EXTENDS Launch, TLAPS

USE LaunchAssumption

ConfigOK ==
    /\ port \in 1..MaxPort
    /\ heartbeatMs \in 1..MaxHeartbeat
    /\ capacity \in 1..(Modulus - 1)

\* strtoull's negation and saturation stay in the type; Bad is no value of it.
LEMMA ParsedFits ==
    ASSUME NEW text \in Texts
    PROVE  ParseU64(text) \in {Bad} \cup 0..(Modulus - 1)
<1>1. CASE ~text.number
    BY <1>1 DEF ParseU64
<1>2. CASE text.number
  <2>1. text.n \in Nat /\ text.negative \in BOOLEAN
    <3>1. [number |-> FALSE].number = FALSE
        OBVIOUS
    <3>2. text \in [number : {TRUE}, negative : BOOLEAN, n : Numerals]
        BY <1>2, <3>1 DEF Texts
    <3> QED
        BY <3>2
  <2>2. \A x \in Int : x % Modulus \in 0..(Modulus - 1)
      OBVIOUS
  <2> QED
      BY <1>2, <2>1, <2>2 DEF ParseU64
<1> QED
    BY <1>1, <1>2

\* Leave[s] pool headroom for an incoming order, away from the end of the type.
LEMMA HeadroomLeft ==
    ASSUME NEW cap \in 1..(Modulus - 1), cap < Modulus - Headroom
    PROVE  (cap + Headroom) % Modulus > cap
<1>1. cap + Headroom \in 0..(Modulus - 1)
    OBVIOUS
<1>2. (cap + Headroom) % Modulus = cap + Headroom
    BY <1>1
<1> QED
    BY <1>2

\* A value is only kept after its test.
LEMMA ConfigStep ==
    ASSUME ConfigOK, Next
    PROVE  ConfigOK'
<1> USE DEF ConfigOK, Bad
<1>1. CASE ReadEnv
    BY <1>1, ParsedFits DEF ReadEnv, Exit
<1>2. ASSUME NEW text \in Texts, ReadPort(text) PROVE ConfigOK'
    BY <1>2, ParsedFits DEF ReadPort, Take, Exit
<1>3. ASSUME NEW text \in Texts, ReadCapacity(text) PROVE ConfigOK'
    BY <1>3, ParsedFits DEF ReadCapacity, Take, Exit
<1>4. ASSUME NEW text \in Texts, ReadHeartbeat(text) PROVE ConfigOK'
    BY <1>4, ParsedFits DEF ReadHeartbeat, Take, Exit
<1>5. CASE ReadOther
    BY <1>5 DEF ReadOther, Exit
<1>6. CASE EndOfOptions
    BY <1>6 DEF EndOfOptions
<1>7. CASE Construct
    BY <1>7 DEF Construct, Exit
<1>8. CASE SetupListen
    BY <1>8 DEF SetupListen, Exit
<1>9. CASE PollFails
    BY <1>9 DEF PollFails, Exit
<1> QED
    BY <1>1, <1>2, <1>3, <1>4, <1>5, <1>6, <1>7, <1>8, <1>9 DEF Next

\* A venue that serves has a port and a heartbeat period that survive their casts,
\* admits orders, and has more pool slots than orders it admits (main.cpp), unless
\* the capacity is one of the last Headroom values of std::size_t.
THEOREM ServedConfigIsValid == Spec => []ServesValidConfig
<1>1. Init => ConfigOK
    BY DEF Init, ConfigOK
<1>2. ConfigOK /\ [Next]_vars => ConfigOK'
    BY ConfigStep DEF vars, ConfigOK
<1>3. ConfigOK => ServesValidConfig
    BY HeadroomLeft DEF ConfigOK, ServesValidConfig, Serving, SoftCap, BookCapacity
<1> QED
    BY <1>1, <1>2, <1>3, PTL DEF Spec
=============================================================================
