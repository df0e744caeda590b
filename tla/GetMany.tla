------------------------------- MODULE GetMany -------------------------------
(***************************************************************************)
(* net/client.WingClient.get_many: a pipelined batch of reads over UDP,    *)
(* and how it recovers what a batch loses.                                 *)
(*                                                                         *)
(* The console answers an address, is silent on one it does not have, and  *)
(* on one whose reply is oversized kills its reply stream to the source    *)
(* port that asked: every later reply to that port is lost.  get_many      *)
(* rotates to a new port after each short chunk, asks again for what is    *)
(* missing in chunks half the size, and gives up after a round that        *)
(* recovers nothing or after the last of its rounds.                       *)
(*                                                                         *)
(* One action is one chunk: the sends, then the replies until all are in   *)
(* or the idle gap.  Which datagrams are lost on the way is left open.     *)
(***************************************************************************)
EXTENDS Selection, Naturals, Sequences, FiniteSets, SequencesExt

CONSTANTS
    Addresses,  \* the addresses a caller may name
    Requests,   \* the lists of addresses a caller may pass
    Batches,    \* the batch sizes a caller may pass, 0 included
    Rounds      \* retry_rounds

ASSUME GetManyAssumption ==
    /\ Requests \subseteq Seq(Addresses)
    /\ Batches \subseteq Nat
    /\ Rounds \in Nat

VARIABLES
    asked,      \* the addresses argument
    nature,     \* how the console takes each address
    stream,     \* what the console does with replies to the current port
    pending,    \* get_many's pending: in the round's order, no address twice
    replies,    \* the addresses replied to
    chunk_size,
    round,      \* round_index, or the round about to begin
    at,         \* where the pass stands in pending; 0 between two rounds
    still,      \* _run_one_pass's still_pending
    returned,   \* the call is over
    lost,       \* history: the addresses a datagram of which was lost
    sends       \* history: how often each address was sent

getManyVars == <<asked, nature, stream, pending, replies, chunk_size, round, at, still,
          returned, lost, sends>>

-----------------------------------------------------------------------------

Natures == {"answers", "absent", "oversized"}

GetManyTypeOK ==
    /\ asked \in Requests
    /\ nature \in [Addresses -> Natures]
    /\ stream \in {"alive", "dead"}
    /\ pending \in Seq(Addresses)
    /\ replies \subseteq Addresses
    /\ chunk_size \in Nat \ {0}
    /\ round \in Nat
    /\ at \in Nat
    /\ still \in Seq(Addresses)
    /\ returned \in BOOLEAN
    /\ lost \subseteq Addresses
    /\ sends \in [Addresses -> Nat]

\* max(1, n), of the caller's batch size and of each halving.
atLeastOne(n) == IF n = 0 THEN 1 ELSE n

\* dict.fromkeys: the first of each address, in the order of the request.
isFirst(s, i) == \A k \in 1..(i - 1) : s[k] # s[i]
firsts(s) == selected([i \in 1..Len(s) |-> i], {i \in 1..Len(s) : isFirst(s, i)})
dedup(s) == [n \in 1..Len(firsts(s)) |-> s[firsts(s)[n]]]

GetManyInit ==
    /\ nature \in [Addresses -> Natures]
    /\ stream = "alive"
    /\ asked \in Requests
    /\ pending = dedup(asked)
    /\ \E size \in Batches : chunk_size = atLeastOne(size)
    /\ replies = {}
    /\ round = 0
    /\ at = 0
    /\ still = << >>
    /\ returned = FALSE
    /\ lost = {}
    /\ sends = [a \in Addresses |-> 0]

-----------------------------------------------------------------------------

between == ~returned /\ at = 0
inPass == ~returned /\ at > 0

\* _rotate: a new source port, which the console has not closed its stream to.
_rotate == stream' = "alive"

\* Mutant of beginRound: still_pending is not begun anew.
beginRoundKeeping ==
    /\ between /\ pending # << >> /\ round <= Rounds
    /\ IF round > 0
       THEN _rotate /\ chunk_size' = atLeastOne(chunk_size \div 2)
       ELSE UNCHANGED <<stream, chunk_size>>
    /\ at' = 1
    /\ UNCHANGED <<asked, nature, pending, still, replies, round, returned, lost, sends>>

\* The head of the loop: a retry round rotates and halves the chunk first.
beginRound ==
    /\ between /\ pending # << >> /\ round <= Rounds
    /\ IF round > 0
       THEN _rotate /\ chunk_size' = atLeastOne(chunk_size \div 2)
       ELSE UNCHANGED <<stream, chunk_size>>
    /\ at' = 1
    /\ still' = << >>
    /\ UNCHANGED <<asked, nature, pending, replies, round, returned, lost, sends>>

\* What the console replies to a chunk: to each address it has, up to the first one
\* whose reply kills the stream.
oversizedIn(chunk) == \E i \in DOMAIN chunk : nature[chunk[i]] = "oversized"
repliesTo(chunk) ==
    {chunk[i] : i \in {k \in DOMAIN chunk :
        /\ stream = "alive" /\ nature[chunk[k]] = "answers"
        /\ ~oversizedIn(SubSeq(chunk, 1, k - 1))}}

chunkAt(i) == SubSeq(pending, i, IF i + chunk_size - 1 < Len(pending)
                                 THEN i + chunk_size - 1 ELSE Len(pending))

\* Mutant of portAfter: only a round rotates.
portAfterRound(short, left) == stream' = left

\* A short chunk rotates before the next chunk is sent, not before the next round.
portAfter(short, left) == IF short THEN _rotate ELSE stream' = left

\* _send_and_collect on the next chunk.
sendChunk ==
    /\ inPass /\ at <= Len(pending)
    /\ LET chunk == chunkAt(at) IN
        \E dropped \in SUBSET repliesTo(chunk) :
            LET got == repliesTo(chunk) \ dropped
                missing == selected(chunk, ToSet(chunk) \ got) IN
            /\ replies' = replies \cup got
            /\ still' = still \o missing
            /\ portAfter(~(ToSet(chunk) \subseteq got), IF oversizedIn(chunk) THEN "dead" ELSE stream)
            /\ lost' = lost \cup dropped
            /\ at' = at + Len(chunk)
            /\ sends' = [a \in Addresses |-> IF a \in ToSet(chunk) THEN sends[a] + 1 ELSE sends[a]]
    /\ UNCHANGED <<asked, nature, pending, chunk_size, round, returned>>

\* The end of a pass, and the two guards of the loop.
endRound ==
    /\ inPass /\ at > Len(pending)
    /\ pending' = still
    /\ at' = 0
    /\ round' = round + 1
    /\ returned' = (Len(still) = Len(pending))
    /\ UNCHANGED <<asked, nature, stream, replies, chunk_size, still, lost, sends>>

return ==
    /\ between /\ (pending = << >> \/ round > Rounds)
    /\ returned' = TRUE
    /\ UNCHANGED <<asked, nature, stream, pending, replies, chunk_size, round, at, still, lost, sends>>

GetManyNext == beginRound \/ sendChunk \/ endRound \/ return

GetManySpec == GetManyInit /\ [][GetManyNext]_getManyVars

-----------------------------------------------------------------------------
(* Properties                                                              *)

\* The addresses not answered so far, in the order they wait.
waiting == IF at = 0 THEN pending ELSE still \o SubSeq(pending, at, Len(pending))

\* No address falls between replies and unresolved, none is in both, none is in
\* unresolved twice: the caller can tell a missing leaf from one never asked.
Accounted ==
    /\ replies \cup ToSet(waiting) = ToSet(asked)
    /\ replies \cap ToSet(waiting) = {}
    /\ Cardinality(ToSet(waiting)) = Len(waiting)

\* No chunk is sent through a port the console no longer replies to.
FreshPort == inPass => stream = "alive"

\* "At chunk size 1 a silent address can only be its own fault": an address whose
\* replies were never lost is then reported unresolved only if it never answers.
Guilty == {a \in Addresses : nature[a] # "answers"}

\* "A round that recovers NOTHING means the rest is genuinely unanswerable": with no
\* datagram lost, what get_many gives up on is what never answers.
OnlyTheGuilty == returned /\ lost = {} => ToSet(pending) \subseteq Guilty
=============================================================================
