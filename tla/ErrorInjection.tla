--------------------------- MODULE ErrorInjection ---------------------------
(***************************************************************************)
(* The library the two programs of the remote copy send through             *)
(* (Program3/RemoteCopy/libcpe464): from the environment and the arguments  *)
(* of sendErr_init() to what sendtoErr() may do to the n-th message of a    *)
(* process (SettingsManager.cpp, network-hooks.c, PacketManager.cpp,        *)
(* MsgEvents).  The state of a process's library is a record: the numbers   *)
(* of the standard errorDrop, the random events, and the error rate, of     *)
(* which only never, sometimes and always are told apart.                   *)
(***************************************************************************)
EXTENDS Integers, Sequences, SequencesExt

CONSTANTS
  Unset,    \* a variable that is not in the environment, or a rate that is no number
  Invalid   \* a comma-separated token that strtol() finds no number in

Rates == {"never", "sometimes", "always"}

Events == {"drop", "flip"}

Libraries == [drops : SUBSET Nat, chance : Seq(Events), rate : Rates]

\* What PacketManager's constructor leaves: m_ErrorRate is 0.
NewLibrary == [drops |-> {}, chance |-> <<>>, rate |-> "never"]

\* parser2ListLong() reads the tokens up to the first that is no number;
\* parserLong2Uint32() leaves the negative ones out.
ParsedList(tokens) ==
  {tokens[i] : i \in {j \in DOMAIN tokens :
                        /\ \A k \in 1..j : tokens[k] # Invalid
                        /\ tokens[j] >= 0}}

AddRandom(lib, event) == [lib EXCEPT !.chance = Append(@, event)]

SetErrorRate(lib, rate) == [lib EXCEPT !.rate = rate]

\* A list without a number, as -1 is, asks for random drops.
LoadEnvErrDrop(lib, env) ==
  IF env.drop = Unset THEN lib
  ELSE IF ParsedList(env.drop) = {} THEN AddRandom(lib, "drop")
  ELSE [lib EXCEPT !.drops = ParsedList(env.drop)]

\* A list of messages to flip is not implemented: nothing is flipped then.
LoadEnvErrFlip(lib, env) ==
  IF env.flip = Unset \/ ParsedList(env.flip) # {} THEN lib
  ELSE AddRandom(lib, "flip")

\* The SettingsManager's constructor, which runs before main().
LoadEnv(env) ==
  LoadEnvErrFlip(
    LoadEnvErrDrop(
      IF env.rate = Unset THEN NewLibrary ELSE SetErrorRate(NewLibrary, env.rate),
      env),
    env)

\* sendErr_init(): each setting of the program counts only if the environment
\* has none, even one that had no effect.
SendErrInit(lib, env, rate, dropFlag, flipFlag) ==
  LET rated == IF env.rate = Unset THEN SetErrorRate(lib, rate) ELSE lib
      dropping == IF env.drop = Unset /\ dropFlag THEN AddRandom(rated, "drop") ELSE rated
  IN  IF env.flip = Unset /\ flipFlag THEN AddRandom(dropping, "flip") ELSE dropping

\* main() of rcopy and of the server: DROP_ON and FLIP_ON, the rate an argument.
Library(env, rate) == SendErrInit(LoadEnv(env), env, rate, TRUE, TRUE)

\* Mutant: the messages are counted from 0.
OutcomesFromZero(lib, n) ==
  IF n - 1 \in lib.drops THEN {"drop"}
  ELSE LET random == IF n > 1 /\ lib.rate # "never" THEN ToSet(lib.chance) ELSE {}
       IN  random \cup (IF lib.rate = "always" /\ random # {} THEN {} ELSE {"send"})

(* processEvents() of message n: a listed one is dropped; the others meet   *)
(* one of the random events with the error rate, but for the process's      *)
(* first message.                                                           *)
Outcomes(lib, n) ==
  IF n \in lib.drops THEN {"drop"}
  ELSE LET random == IF n > 1 /\ lib.rate # "never" THEN ToSet(lib.chance) ELSE {}
       IN  random \cup (IF lib.rate = "always" /\ random # {} THEN {} ELSE {"send"})

=============================================================================
