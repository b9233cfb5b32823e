----------------------------- MODULE DeviceLink -----------------------------
(***************************************************************************)
(* The connection to another device (device-connection-lifecycle.ts):       *)
(* discovery, pairing and authentication, then heartbeats that degrade and  *)
(* recover it, and losses of the connection. A call that the state does not *)
(* allow throws and changes nothing.                                        *)
(***************************************************************************)
EXTENDS Integers, Sequences

CONSTANTS
    DegradeAfter,  \* degradeAfterConsecutiveSamples
    RecoverAfter,  \* recoverAfterConsecutiveSamples
    MaxSamples     \* bound of the model on the heartbeats of one connection

ASSUME LinkAssumption ==
    /\ DegradeAfter \in Nat \ {0}
    /\ RecoverAfter \in Nat \ {0}
    /\ MaxSamples \in Nat

VARIABLES
    link,         \* DeviceConnectionLifecycle.state
    badInARow,    \* consecutiveDegradedSamples
    goodInARow,   \* consecutiveHealthySamples
    samples       \* history: the heartbeats since the connection was made, TRUE for good ones

linkVars == <<link, badInARow, goodInARow, samples>>

Quality == {"connected_healthy", "connected_degraded"}

LinkStates == Quality \cup {"disconnected", "discovering", "pairing", "authenticating", "reconnecting"}

LinkTypeOK ==
    /\ link \in LinkStates
    /\ badInARow \in Nat /\ goodInARow \in Nat
    /\ samples \in Seq(BOOLEAN)

LinkInit ==
    /\ link = "disconnected"
    /\ badInARow = 0 /\ goodInARow = 0
    /\ samples = <<>>

Move(from, to) ==
    /\ link \in from
    /\ link' = to
    /\ UNCHANGED <<badInARow, goodInARow, samples>>

\* Discovery may begin in any state, a connected one included.
BeginDiscovery == Move(LinkStates, "discovering")

CandidateDiscovered == \E to \in {"authenticating", "pairing"} : Move({"discovering"}, to)

PairingSucceeded == Move({"pairing"}, "authenticating")

\* Fault: the counts of the previous connection go on.
ConnectKeepingCounts(from) ==
    /\ link \in from
    /\ link' = "connected_healthy"
    /\ samples' = <<>>
    /\ UNCHANGED <<badInARow, goodInARow>>

\* The two ways to a connection, which is healthy at first.
ConnectFrom(from) ==
    /\ link \in from
    /\ link' = "connected_healthy"
    /\ badInARow' = 0 /\ goodInARow' = 0
    /\ samples' = <<>>

\* The presented key is the stored one, or it is not.
Authenticate == ConnectFrom({"authenticating"}) \/ Move({"authenticating"}, "disconnected")

Reconnected == ConnectFrom({"reconnecting"})

\* A heartbeat without a connection is ignored.
RecordHeartbeat(good) ==
    /\ link \in Quality
    /\ Len(samples) < MaxSamples /\ samples' = Append(samples, good)
    /\ IF good
       THEN /\ goodInARow' = goodInARow + 1
            /\ badInARow' = 0
            /\ link' = IF link = "connected_degraded" /\ goodInARow' >= RecoverAfter
                       THEN "connected_healthy" ELSE link
       ELSE /\ badInARow' = badInARow + 1
            /\ goodInARow' = 0
            /\ link' = IF link = "connected_healthy" /\ badInARow' >= DegradeAfter
                       THEN "connected_degraded" ELSE link

ConnectionLost == Move(Quality, "reconnecting")

ReconnectAbandoned == Move({"reconnecting"}, "disconnected")

LinkNext ==
    \/ BeginDiscovery \/ CandidateDiscovered \/ PairingSucceeded \/ Authenticate
    \/ Reconnected \/ ConnectionLost \/ ReconnectAbandoned
    \/ \E good \in BOOLEAN : RecordHeartbeat(good)

LinkSpec == LinkInit /\ [][LinkNext]_linkVars
-----------------------------------------------------------------------------
(* Properties.                                                              *)

\* The n samples up to the k-th are all of the given quality.
Run(k, n, good) == k >= n /\ \A i \in (k - n + 1) .. k : samples[i] = good

\* The quality of a connection is a function of its own samples: it is degraded
\* if and only if enough bad ones in a row were not followed by enough good ones
\* in a row. Nothing of an earlier connection counts, and no single sample
\* makes it flap (FM-26-014).
QualityFollowsSamples ==
    link \in Quality =>
        (link = "connected_degraded" <=>
           \E k \in DOMAIN samples :
              /\ Run(k, DegradeAfter, FALSE)
              /\ \A m \in (k + 1) .. Len(samples) : ~Run(m, RecoverAfter, TRUE))
=============================================================================
