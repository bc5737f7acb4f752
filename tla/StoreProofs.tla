----------------------------- MODULE StoreProofs -----------------------------
(***************************************************************************)
(* Proofs about parts that MCServices puts beside each other, each for any *)
(* value of its constants: what is kept in files, and the desktop program. *)
(***************************************************************************)
EXTENDS Integers, Sequences, FiniteSets, FiniteSetTheorems, SequenceTheorems, TLAPS

-----------------------------------------------------------------------------
(* The download of an installer.                                           *)

CONSTANTS Calls, Cancels, Size
VARIABLES at, done, cancel, active, part, target, asks, owing, sized

UD == INSTANCE UpdateDownload

\* One call runs at a time, and while it does the guard is taken; the .part file has what
\* that call has received, all of it when the response has said how much that is.
DownloadInv ==
    /\ UD!TypeOK /\ UD!TargetIsWhole
    /\ \A c \in UD!Running : active
    /\ \A c, d \in UD!Running : c = d
    /\ \A c \in Calls : /\ at[c] \in {"new", "cleared", "dialog", "request"} => done[c] = 0
                        /\ at[c] \in {"writing", "flushed"} => part = done[c]
                        /\ at[c] = "flushed" => done[c] = Size \/ c \notin sized

LEMMA DownloadInit ==
    ASSUME Size \in Nat, UD!Init
    PROVE  DownloadInv
<1>1. UD!TypeOK /\ UD!TargetIsWhole
  <2>1. at \in [Calls -> {"new"}] /\ done \in [Calls -> {0}] /\ asks \in [Cancels -> {"new"}]
    BY DEF UD!Init
  <2>2. 0 \in 0 .. Size /\ Size + 1 \in 0 .. Size + 1
    OBVIOUS
  <2>3. /\ at \in [Calls -> UD!Over \cup {"new", "cleared", "dialog", "request", "writing", "flushed"}]
        /\ done \in [Calls -> 0 .. Size] /\ asks \in [Cancels -> {"new", "yes", "no"}]
    BY <2>1, <2>2
  <2>. QED
    BY <2>2, <2>3 DEF UD!Init, UD!TypeOK, UD!TargetIsWhole, UD!NoFile
<1>2. UD!Running = {}
  BY DEF UD!Init, UD!Running
<1>. QED
  BY <1>1, <1>2 DEF DownloadInv, UD!Init

\* A call that does not start or end leaves the others where they are.
LEMMA DownloadCall ==
    ASSUME Size \in Nat, DownloadInv, NEW c \in Calls, NEW s, at' = [at EXCEPT ![c] = s],
           s \in UD!Over \cup {"cleared", "dialog", "request", "writing", "flushed"},
           done' \in [Calls -> 0 .. Size], \A d \in Calls \ {c} : done'[d] = done[d],
           active' \in BOOLEAN, part' \in 0 .. UD!NoFile, target' \in 0 .. UD!NoFile, cancel' \in BOOLEAN,
           UNCHANGED <<asks, owing>>, at[c] # "saved", sized' \in {sized, sized \cup {c}},
           \/ target' \in {target, UD!NoFile, Size}
           \/ s = "saved" /\ target' = done'[c] /\ c \notin sized',
           s \in {"dialog", "request", "writing", "flushed"} => active' /\ (c \in UD!Running \/ ~active),
           s \in {"cleared", "dialog", "request"} => done'[c] = 0,
           s \in {"writing", "flushed"} => part' = done'[c],
           s = "flushed" => done'[c] = Size \/ c \notin sized',
           c \in UD!Running \/ (part' = part /\ (active => active'))
    PROVE  DownloadInv'
<1>1. UD!TypeOK /\ \A d \in Calls : at'[d] = IF d = c THEN s ELSE at[d]
  BY DEF DownloadInv, UD!TypeOK
<1>2. UD!TypeOK'
  BY <1>1 DEF UD!TypeOK, UD!Over, UD!NoFile
<1>0. UD!TargetIsWhole'
  <2>1. CASE target' = target
    <3>1. CASE target \in {UD!NoFile, Size}
      BY <2>1, <3>1 DEF UD!TargetIsWhole, UD!NoFile
    <3>2. ASSUME NEW d \in Calls \ sized, at[d] = "saved" /\ done[d] = target
          PROVE  UD!TargetIsWhole'
      BY <1>1, <2>1, <3>2 DEF UD!TargetIsWhole
    <3>. QED
      BY <3>1, <3>2 DEF DownloadInv, UD!TargetIsWhole
  <2>2. CASE target' \in {UD!NoFile, Size}
    BY <2>2 DEF UD!TargetIsWhole, UD!NoFile
  <2>3. CASE s = "saved" /\ target' = done'[c] /\ c \notin sized'
    BY <1>1, <2>3 DEF UD!TargetIsWhole
  <2>. QED
    BY <2>1, <2>2, <2>3
<1>3. \A d \in Calls : d # c => (d \in UD!Running' <=> d \in UD!Running)
  BY <1>1 DEF UD!Running
<1>4. c \in UD!Running' <=> s \in {"dialog", "request", "writing", "flushed"}
  BY <1>1 DEF UD!Running
<1>5. UD!Running' \subseteq Calls /\ UD!Running \subseteq Calls
  BY DEF UD!Running
<1>6. \A d \in UD!Running' : active'
  BY <1>3, <1>4, <1>5 DEF DownloadInv
<1>7. \A d, e \in UD!Running' : d = e
  BY <1>3, <1>4, <1>5 DEF DownloadInv
<1>8. ASSUME NEW d \in Calls, d # c
      PROVE  /\ at'[d] \in {"new", "cleared", "dialog", "request"} => done'[d] = 0
             /\ at'[d] \in {"writing", "flushed"} => part' = done'[d]
             /\ at'[d] = "flushed" => done'[d] = Size \/ d \notin sized'
  <2>1. at'[d] = at[d] /\ done'[d] = done[d] /\ (d \in sized' <=> d \in sized)
    BY <1>1, <1>8
  <2>2. at[d] \in {"writing", "flushed"} => d \in UD!Running
    BY DEF UD!Running
  <2>3. d \in UD!Running => c \notin UD!Running
    BY <1>8 DEF DownloadInv
  <2>. QED
    BY <2>1, <2>2, <2>3 DEF DownloadInv
<1>9. /\ at'[c] \in {"new", "cleared", "dialog", "request"} => done'[c] = 0
      /\ at'[c] \in {"writing", "flushed"} => part' = done'[c]
      /\ at'[c] = "flushed" => done'[c] = Size \/ c \notin sized'
  BY <1>1 DEF UD!Over
<1>. QED
  BY <1>0, <1>2, <1>6, <1>7, <1>8, <1>9 DEF DownloadInv

\* The guard goes with the call.
LEMMA DownloadEnds ==
    ASSUME Size \in Nat, DownloadInv, NEW c \in UD!Running, NEW how \in UD!Over, UD!Ends(c, how),
           part' \in 0 .. UD!NoFile, target' \in 0 .. UD!NoFile,
           UNCHANGED <<done, cancel, asks, owing, sized>>,
           \/ target' \in {target, UD!NoFile, Size}
           \/ how = "saved" /\ target' = done[c] /\ c \notin sized
    PROVE  DownloadInv'
<1>1. UD!TypeOK /\ c \in Calls /\ at[c] # "saved"
  BY DEF DownloadInv, UD!Running
<1>2. /\ at' = [at EXCEPT ![c] = how] /\ active' = FALSE
      /\ how \in {"saved", "refused", "cancelled", "failed"}
  BY DEF UD!Ends, UD!Over
<1>3. /\ how \in UD!Over \cup {"cleared", "dialog", "request", "writing", "flushed"}
      /\ done' \in [Calls -> 0 .. Size] /\ \A d \in Calls \ {c} : done'[d] = done[d]
      /\ active' \in BOOLEAN /\ cancel' \in BOOLEAN
  BY <1>1, <1>2 DEF UD!TypeOK
<1>. QED
  BY <1>1, <1>2, <1>3, DownloadCall

LEMMA DownloadStep ==
    ASSUME Size \in Nat, DownloadInv, [UD!Next]_(UD!vars)
    PROVE  DownloadInv'
<1>0. UD!TypeOK /\ UD!TargetIsWhole /\ UD!NoFile \in Nat
  BY DEF DownloadInv, UD!NoFile
<1>1. ASSUME NEW c \in Calls, UD!Clear(c)
      PROVE  DownloadInv'
  <2>1. c \notin UD!Running /\ done[c] = 0
    BY <1>1 DEF UD!Clear, UD!Running, DownloadInv
  <2>. QED
    BY <1>0, <1>1, <2>1, DownloadCall DEF UD!Clear, UD!TypeOK
<1>2. ASSUME NEW c \in Calls, UD!Claim(c)
      PROVE  DownloadInv'
  <2>1. c \notin UD!Running /\ done[c] = 0
    BY <1>2 DEF UD!Claim, UD!Running, DownloadInv
  <2>. QED
    BY <1>0, <1>2, <2>1, DownloadCall DEF UD!Claim, UD!TypeOK, UD!Over
<1>3. ASSUME NEW c \in Calls, UD!Choose(c)
      PROVE  DownloadInv'
  <2>1. c \in UD!Running /\ done[c] = 0 /\ active
    BY <1>3 DEF UD!Choose, UD!Running, DownloadInv
  <2>. QED
    BY <1>0, <1>3, <2>1, DownloadCall DEF UD!Choose, UD!Ends, UD!TypeOK, UD!Over
<1>4. ASSUME NEW c \in Calls, UD!Request(c)
      PROVE  DownloadInv'
  <2>1. c \in UD!Running /\ done[c] = 0 /\ active
    BY <1>4 DEF UD!Request, UD!Running, DownloadInv
  <2>. QED
    <3>1. CASE UD!Ends(c, "failed") /\ UNCHANGED <<part, sized>>
      BY <1>0, <1>4, <2>1, <3>1, DownloadEnds DEF UD!Request, UD!TypeOK, UD!Over
    <3>2. CASE /\ at' = [at EXCEPT ![c] = "writing"] /\ part' = 0
               /\ sized' \in {sized, sized \cup {c}} /\ UNCHANGED active
      <4>1. /\ part' = done'[c] /\ part' \in 0 .. UD!NoFile /\ target' = target /\ target' \in 0 .. UD!NoFile
            /\ done' = done /\ done \in [Calls -> 0 .. Size] /\ cancel' \in BOOLEAN /\ active' \in BOOLEAN
        BY <1>0, <1>4, <2>1, <3>2 DEF UD!Request, UD!TypeOK
      <4>. QED
        BY <1>4, <2>1, <3>2, <4>1, DownloadCall DEF UD!Request
    <3>. QED
      BY <1>4, <3>1, <3>2 DEF UD!Request
<1>5. ASSUME NEW c \in Calls, UD!Receive(c)
      PROVE  DownloadInv'
  <2>1. c \in UD!Running /\ part = done[c] /\ active /\ done[c] \in 0 .. Size
    BY <1>0, <1>5 DEF UD!Receive, UD!Running, DownloadInv, UD!TypeOK
  <2>2. CASE done' = [done EXCEPT ![c] = @ + 1] /\ part' = part + 1 /\ done[c] < Size /\ UNCHANGED <<at, active>>
    <3>1. /\ at[c] = "writing" /\ at' = [at EXCEPT ![c] = "writing"] /\ done' \in [Calls -> 0 .. Size]
          /\ part' \in 0 .. UD!NoFile /\ part' = done'[c]
      BY <1>0, <1>5, <2>1, <2>2 DEF UD!Receive, UD!TypeOK, UD!NoFile
    <3>2. UNCHANGED <<cancel, target, asks, owing, sized>> /\ \A d \in Calls \ {c} : done'[d] = done[d]
      BY <1>0, <1>5, <2>2 DEF UD!Receive, UD!TypeOK
    <3>. QED
      BY <1>0, <2>1, <2>2, <3>1, <3>2, DownloadCall DEF UD!TypeOK
  <2>3. CASE (UD!Ends(c, "cancelled") \/ UD!Ends(c, "failed")) /\ part' = UD!NoFile /\ UNCHANGED done
    <3>1. /\ part' \in 0 .. UD!NoFile /\ target' = target /\ target' \in 0 .. UD!NoFile
          /\ UNCHANGED <<cancel, asks, owing, sized>>
      BY <1>0, <1>5, <2>3 DEF UD!Receive, UD!TypeOK
    <3>. QED
      BY <2>1, <2>3, <3>1, DownloadEnds DEF UD!Over
  <2>. QED
    BY <1>5, <2>2, <2>3 DEF UD!Receive
<1>6. ASSUME NEW c \in Calls, UD!Flush(c)
      PROVE  DownloadInv'
  <2>1. c \in UD!Running /\ part = done[c] /\ active
    BY <1>6 DEF UD!Flush, UD!Running, DownloadInv
  <2>. QED
    <3>1. target' = target /\ target' \in 0 .. UD!NoFile /\ UNCHANGED <<done, cancel, asks, owing, sized>>
      BY <1>0, <1>6 DEF UD!Flush, UD!TypeOK
    <3>2. CASE done[c] = Size \/ c \notin sized
      <4>1. at' = [at EXCEPT ![c] = "flushed"] /\ UNCHANGED <<active, part>>
        BY <1>6, <3>2 DEF UD!Flush
      <4>2. /\ part' \in 0 .. UD!NoFile /\ cancel' \in BOOLEAN /\ active' \in BOOLEAN
            /\ done' \in [Calls -> 0 .. Size] /\ at[c] # "saved"
        BY <1>0, <1>6, <3>1, <4>1 DEF UD!Flush, UD!TypeOK
      <4>. QED
        BY <2>1, <3>1, <3>2, <4>1, <4>2, DownloadCall
    <3>3. CASE UD!Ends(c, "failed") /\ part' = UD!NoFile
      BY <1>0, <2>1, <3>1, <3>3, DownloadEnds DEF UD!Over
    <3>. QED
      BY <1>6, <3>2, <3>3 DEF UD!Flush
<1>7. ASSUME NEW c \in Calls, UD!Rename(c)
      PROVE  DownloadInv'
  <2>1. c \in UD!Running /\ part = done[c] /\ (done[c] = Size \/ c \notin sized)
    BY <1>7 DEF UD!Rename, UD!Running, DownloadInv
  <2>. QED
    <3>1. /\ part' \in 0 .. UD!NoFile /\ target' \in 0 .. UD!NoFile
          /\ UNCHANGED <<done, cancel, asks, owing, sized>>
      BY <1>0, <1>7 DEF UD!Rename, UD!TypeOK
    <3>2. CASE UD!Ends(c, "saved") /\ target' = part
      BY <2>1, <3>1, <3>2, DownloadEnds DEF UD!Over
    <3>3. CASE UD!Ends(c, "failed") /\ target' = target
      BY <2>1, <3>1, <3>3, DownloadEnds DEF UD!Over
    <3>. QED
      BY <1>7, <3>2, <3>3 DEF UD!Rename
<1>8. ASSUME NEW k \in Cancels, UD!Cancel(k)
      PROVE  DownloadInv'
  <2>1. UD!Running' = UD!Running /\ UD!Running \subseteq Calls
    BY <1>8 DEF UD!Cancel, UD!Running
  <2>2. UD!TypeOK' /\ UD!TargetIsWhole'
    BY <1>0, <1>8, <2>1 DEF UD!Cancel, UD!TypeOK, UD!TargetIsWhole, UD!NoFile, UD!Over
  <2>. QED
    BY <1>8, <2>1, <2>2 DEF UD!Cancel, DownloadInv
<1>9. ASSUME UNCHANGED UD!vars
      PROVE  DownloadInv'
  BY <1>9 DEF UD!vars, DownloadInv, UD!TypeOK, UD!TargetIsWhole, UD!Running, UD!NoFile
<1>. QED
  BY <1>1, <1>2, <1>3, <1>4, <1>5, <1>6, <1>7, <1>8, <1>9 DEF UD!Next

\* Whatever commands, cancellations and errors meet, the file under the installer's name is
\* whole or absent, or all there was of a response that ended early and had not said its length:
\* a second command finds the guard taken, and so only the call that wrote the .part file
\* renames it (update_download.rs).
THEOREM DownloadsAreWhole ==
    ASSUME Size \in Nat
    PROVE  UD!Spec => [](UD!TypeOK /\ UD!TargetIsWhole)
<1>1. DownloadInv => UD!TypeOK /\ UD!TargetIsWhole
  BY DEF DownloadInv
<1>. QED
  BY <1>1, DownloadInit, DownloadStep, PTL DEF UD!Spec

-----------------------------------------------------------------------------
(* Probes for distributions.                                               *)

CONSTANTS Distros, Requests, MaxProbes, None
VARIABLES installed, next, slot, probe, ask

SP == INSTANCE ShellProbe

ProbeResults == [is : {"available", "unavailable", "unknown"}, distros : SUBSET Distros]

ProbeRec == [pc : {"none", "help", "list", "sent", "over"}, result : ProbeResults \cup {None}, had : SUBSET Distros]
AskRec == [pc : {"new", "waiting", "answered"}, probe : SP!Probes \cup {None}, distro : Distros \cup {None},
           over : SUBSET SP!Probes, answer : {None, "available", "unavailable", "unknown", "missing", "ok"}]

ProbeTypes ==
    /\ next \in 0 .. MaxProbes /\ slot \in SP!Probes \cup {None} /\ installed \subseteq Distros
    /\ probe \in [SP!Probes -> ProbeRec] /\ ask \in [Requests -> AskRec]

\* A probe that is under way is the one in the slot.  What it lists has been there since
\* it began.
ProbeInv ==
    /\ slot # None => slot < next
    /\ \A n \in SP!Probes :
         /\ n >= next => probe[n].pc = "none"
         /\ n \in SP!Running => slot = n /\ installed \subseteq probe[n].had
         /\ probe[n].pc \in {"sent", "over"} => probe[n].result \in ProbeResults /\ probe[n].result.distros \subseteq probe[n].had

\* A request waits for a probe that had not ended when it asked; it is answered by it.
AskInv ==
    \A r \in Requests :
      /\ ask[r].pc # "new" => ask[r].probe \in SP!Probes /\ ask[r].probe < next /\ ask[r].probe \notin ask[r].over
      /\ ask[r].pc # "answered" => ask[r].answer = None
      /\ ask[r].pc = "answered" => probe[ask[r].probe].pc \in {"sent", "over"}
      /\ ask[r].answer = "ok" /\ ask[r].distro # None => ask[r].distro \in probe[ask[r].probe].had

ProbesInv == ProbeTypes /\ ProbeInv /\ AskInv

LEMMA ProbesInit ==
    ASSUME MaxProbes \in Nat, None \notin Nat \cup {"ok"}, SP!Init
    PROVE  ProbesInv
<1>1. /\ probe = [n \in SP!Probes |-> [pc |-> "none", result |-> None, had |-> {}]]
      /\ ask = [r \in Requests |-> [pc |-> "new", probe |-> None, distro |-> None, over |-> {}, answer |-> None]]
      /\ next = 0 /\ slot = None /\ installed \subseteq Distros
  BY DEF SP!Init
<1>2. ProbeTypes
  BY <1>1 DEF ProbeTypes, ProbeRec, AskRec
<1>3. ProbeInv /\ AskInv
  BY <1>1 DEF ProbeInv, AskInv, SP!Running
<1>. QED
  BY <1>2, <1>3 DEF ProbesInv

\* A step of the machine or of probe n that starts none: it leaves what it has listed, and
\* what there was.
LEMMA ProbeGoesOn ==
    ASSUME MaxProbes \in Nat, None \notin Nat \cup {"ok"}, ProbesInv, ProbeTypes', UNCHANGED <<next, ask>>,
           slot' # None => slot' = slot,
           \A n \in SP!Probes :
             /\ probe[n].had \subseteq probe'[n].had
             /\ probe[n].pc = "none" => probe'[n].pc = "none"
             /\ probe[n].pc \in {"sent", "over"} => probe'[n].pc \in {"sent", "over"} /\ probe'[n].result = probe[n].result
             /\ n \in SP!Running' => n \in SP!Running /\ slot' = slot /\ installed' \subseteq probe'[n].had
             /\ probe[n].pc \in {"help", "list"} /\ probe'[n].pc \in {"sent", "over"} =>
                  probe'[n].result \in ProbeResults /\ probe'[n].result.distros \subseteq probe'[n].had
    PROVE  ProbesInv'
<1>1. ProbeTypes /\ ProbeInv /\ AskInv
  BY DEF ProbesInv
<1>2. \A n \in SP!Probes : probe[n].pc \in {"none", "help", "list", "sent", "over"}
  BY <1>1 DEF ProbeTypes, ProbeRec
<1>3. SP!Probes' = SP!Probes
  BY DEF SP!Probes
<1>4. \A n \in SP!Probes : probe'[n].pc \in {"sent", "over"} =>
         probe'[n].result \in ProbeResults /\ probe'[n].result.distros \subseteq probe'[n].had
  BY <1>1, <1>2 DEF ProbeInv
<1>5. ProbeInv'
  BY <1>1, <1>3, <1>4 DEF ProbeInv
<1>6. AskInv'
  BY <1>1, <1>3 DEF AskInv
<1>. QED
  BY <1>5, <1>6 DEF ProbesInv

LEMMA ProbeAsked ==
    ASSUME MaxProbes \in Nat, None \notin Nat \cup {"ok"}, ProbesInv,
           NEW r \in Requests, NEW d \in Distros \cup {None}, SP!Ask(r, d)
    PROVE  ProbesInv'
<1>. DEFINE Ended == {m \in SP!Probes : probe[m].pc \in {"sent", "over"}}
<1>1. ProbeTypes /\ ProbeInv /\ AskInv /\ SP!Probes' = SP!Probes /\ installed' = installed
  BY DEF ProbesInv, SP!Probes, SP!Ask
<1>2. ASSUME NEW n \in SP!Probes, SP!Waits(r, n, d), n \notin Ended, n < next', next <= next', next' \in Nat,
             \A m \in SP!Probes : /\ probe[m].had \subseteq probe'[m].had \/ probe[m].pc = "none"
                                  /\ m \in Ended => probe'[m] = probe[m]
      PROVE  AskInv'
    <2>1. \A q \in Requests : ask'[q] = IF q = r
                THEN [pc |-> "waiting", probe |-> n, distro |-> d, over |-> Ended, answer |-> None] ELSE ask[q]
      BY <1>1, <1>2 DEF SP!Waits, ProbeTypes
    <2>2. ASSUME NEW q \in Requests, q # r
          PROVE  /\ ask'[q].pc # "new" => ask'[q].probe \in SP!Probes /\ ask'[q].probe < next' /\ ask'[q].probe \notin ask'[q].over
                 /\ ask'[q].pc # "answered" => ask'[q].answer = None
                 /\ ask'[q].pc = "answered" => probe'[ask'[q].probe].pc \in {"sent", "over"}
                 /\ ask'[q].answer = "ok" /\ ask'[q].distro # None => ask'[q].distro \in probe'[ask'[q].probe].had
      <3>1. ask'[q] = ask[q]
        BY <2>1, <2>2
      <3>2. ask[q].pc # "new" => ask[q].probe \in SP!Probes /\ ask[q].probe < next'
        <4>1. next \in Nat /\ next' \in Nat /\ (ask[q].probe \in SP!Probes => ask[q].probe \in Nat)
          BY <1>1, <1>2 DEF ProbeTypes, SP!Probes
        <4>2. ask[q].pc # "new" => ask[q].probe \in SP!Probes /\ ask[q].probe < next
          BY <1>1 DEF AskInv
        <4>. QED
          BY <1>2, <4>1, <4>2
      <3>3. ask[q].pc = "answered" => ask[q].probe \in Ended
        BY <1>1, <3>2 DEF AskInv
      <3>4. ask[q].answer = "ok" => ask[q].pc = "answered"
        BY <1>1 DEF AskInv
      <3>. QED
        BY <1>1, <1>2, <3>1, <3>2, <3>3, <3>4 DEF AskInv
    <2>3. ask'[r] = [pc |-> "waiting", probe |-> n, distro |-> d, over |-> Ended, answer |-> None]
      BY <2>1
    <2>. QED
      BY <1>1, <1>2, <2>2, <2>3 DEF AskInv
<1>3. ASSUME NEW n \in SP!Probes, SP!Waits(r, n, d)
      PROVE  ask' \in [Requests -> AskRec]
  <2>1. [pc |-> "waiting", probe |-> n, distro |-> d, over |-> Ended, answer |-> None] \in AskRec
    BY <1>3 DEF AskRec
  <2>. QED
    BY <1>1, <1>3, <2>1 DEF SP!Waits, ProbeTypes
<1>4. CASE SP!Joins(slot)
  <2>1. slot \in SP!Running /\ SP!Waits(r, slot, d) /\ UNCHANGED <<next, slot, probe>>
    BY <1>4 DEF SP!Joins, SP!Ask
  <2>2. slot \in SP!Probes /\ slot \notin Ended /\ slot < next' /\ next <= next' /\ next' \in Nat
    BY <1>1, <2>1 DEF SP!Running, ProbeInv, ProbeTypes, SP!Probes
  <2>3. AskInv'
    BY <1>2, <2>1, <2>2
  <2>4. ProbeTypes' /\ ProbeInv'
    BY <1>1, <1>3, <2>1, <2>2 DEF ProbeTypes, ProbeInv, SP!Running
  <2>. QED
    BY <2>3, <2>4 DEF ProbesInv
<1>5. CASE ~SP!Joins(slot)
  <2>1. /\ next < MaxProbes /\ next' = next + 1 /\ slot' = next /\ SP!Waits(r, next, d)
        /\ probe' = [probe EXCEPT ![next].pc = "help", ![next].had = installed]
    BY <1>5 DEF SP!Ask
  <2>2. next \in SP!Probes /\ probe[next].pc = "none" /\ next < next' /\ next <= next' /\ next \in Nat /\ next' \in Nat
    BY <1>1, <2>1 DEF ProbeInv, ProbeTypes, SP!Probes
  <2>3. \A m \in SP!Probes : m # next => m \notin SP!Running
    <3>1. slot # None => slot \notin SP!Running
      BY <1>5 DEF SP!Joins
    <3>2. None \notin SP!Running
      BY DEF SP!Running, SP!Probes
    <3>. QED
      BY <1>1, <3>1, <3>2 DEF ProbeInv
  <2>4. \A m \in SP!Probes : probe'[m] = IF m = next THEN [probe[m] EXCEPT !.pc = "help", !.had = installed] ELSE probe[m]
    BY <1>1, <2>1 DEF ProbeTypes
  <2>0. probe[next] \in ProbeRec
    BY <1>1, <2>2 DEF ProbeTypes
  <2>5. probe'[next].pc = "help" /\ probe'[next].had = installed /\ probe'[next] \in ProbeRec
    BY <1>1, <2>0, <2>2, <2>4 DEF ProbeRec, ProbeTypes
  <2>6. \A m \in SP!Running' : m = next
    BY <1>1, <2>3, <2>4 DEF SP!Running
  <2>7. ProbeInv'
    <3>1. ASSUME NEW m \in SP!Probes, m # next
          PROVE  /\ m >= next' => probe'[m].pc = "none"
                 /\ m \notin SP!Running'
                 /\ probe'[m].pc \in {"sent", "over"} =>
                      probe'[m].result \in ProbeResults /\ probe'[m].result.distros \subseteq probe'[m].had
      <4>1. probe'[m] = probe[m] /\ m \notin SP!Running'
        BY <2>4, <2>6, <3>1
      <4>2. m >= next' => m >= next
        BY <2>1, <2>2 DEF SP!Probes
      <4>. QED
        BY <1>1, <4>1, <4>2 DEF ProbeInv
    <3>2. ~(next >= next') /\ slot' = next /\ slot' < next' /\ installed' \subseteq probe'[next].had
      BY <1>1, <2>1, <2>2, <2>5
    <3>. QED
      BY <1>1, <2>5, <3>1, <3>2 DEF ProbeInv
  <2>8. ProbeTypes'
    <3>1. probe' \in [SP!Probes -> ProbeRec]
      BY <1>1, <2>1, <2>4, <2>5 DEF ProbeTypes
    <3>2. next' \in 0 .. MaxProbes
      BY <2>1, <2>2
    <3>. QED
      BY <1>1, <1>3, <2>1, <2>2, <3>1, <3>2 DEF ProbeTypes
  <2>9. AskInv'
    BY <1>2, <2>1, <2>2, <2>4
  <2>. QED
    BY <2>7, <2>8, <2>9 DEF ProbesInv
<1>. QED
  BY <1>4, <1>5

LEMMA ProbesStep ==
    ASSUME MaxProbes \in Nat, None \notin Nat \cup {"ok"}, ProbesInv, [SP!Next]_(SP!vars)
    PROVE  ProbesInv'
<1>0. ProbeTypes /\ ProbeInv /\ AskInv /\ SP!Probes' = SP!Probes
  BY DEF ProbesInv, SP!Probes
<1>1. ASSUME NEW d \in Distros, SP!Install(d)
      PROVE  ProbesInv'
  <2>1. \A n \in SP!Probes : /\ n \in SP!Running => probe'[n] = [probe[n] EXCEPT !.had = @ \cup {d}]
                             /\ n \notin SP!Running => probe'[n] = probe[n]
    BY <1>1 DEF SP!Install
  <2>2. \A n \in SP!Probes : /\ probe'[n].pc = probe[n].pc /\ probe'[n].result = probe[n].result
                             /\ n \in SP!Running => probe'[n].had = probe[n].had \cup {d}
    <3>1. ASSUME NEW n \in SP!Probes PROVE probe[n] \in ProbeRec
      BY <1>0 DEF ProbeTypes
    <3>. QED
      BY <2>1, <3>1 DEF ProbeRec
  <2>3. SP!Running' = SP!Running
    BY <1>0, <2>2 DEF SP!Running
  <2>4. ProbeTypes' /\ installed' = installed \cup {d} /\ UNCHANGED <<next, slot, ask>>
    <3>1. ASSUME NEW n \in SP!Probes PROVE probe'[n] \in ProbeRec
      <4>1. probe[n] \in ProbeRec
        BY <1>0 DEF ProbeTypes
      <4>2. probe[n].had \cup {d} \in SUBSET Distros
        BY <4>1 DEF ProbeRec
      <4>3. [probe[n] EXCEPT !.had = @ \cup {d}] \in ProbeRec
        BY <4>1, <4>2 DEF ProbeRec
      <4>. QED
        BY <2>1, <4>1, <4>3
    <3>2. probe' \in [SP!Probes -> ProbeRec]
      BY <1>1, <3>1 DEF SP!Install
    <3>. QED
      BY <1>0, <1>1, <3>2 DEF SP!Install, ProbeTypes
  <2>5. \A n \in SP!Probes : n \in SP!Running => installed' \subseteq probe'[n].had
    BY <1>0, <2>2, <2>4 DEF ProbeInv
  <2>6. \A n \in SP!Probes : probe[n].had \subseteq probe'[n].had
    BY <2>1, <2>2
  <2>. QED
    BY <1>0, <2>2, <2>3, <2>4, <2>5, <2>6, ProbeGoesOn DEF SP!Running
<1>2. ASSUME NEW d \in Distros, SP!Remove(d)
      PROVE  ProbesInv'
  BY <1>0, <1>2, ProbeGoesOn DEF SP!Remove, ProbeTypes, ProbeInv, SP!Running
<1>3. ASSUME NEW n \in SP!Probes, NEW p, NEW x, probe' = [probe EXCEPT ![n].pc = p, ![n].result = x],
             UNCHANGED <<installed, next, slot, ask>>,
             \/ probe[n].pc = "help" /\ p = "list" /\ x = probe[n].result
             \/ /\ probe[n].pc \in {"help", "list"} /\ p = "sent" /\ x.distros \subseteq installed
                /\ x \in ProbeResults
      PROVE  ProbesInv'
  <2>1. \A m \in SP!Probes : probe'[m] = IF m = n THEN [probe[n] EXCEPT !.pc = p, !.result = x] ELSE probe[m]
    BY <1>0, <1>3 DEF ProbeTypes
  <2>0. probe[n] \in ProbeRec
    BY <1>0 DEF ProbeTypes
  <2>2. probe'[n].pc = p /\ probe'[n].result = x /\ probe'[n].had = probe[n].had /\ probe'[n] \in ProbeRec
    <3>1. p \in {"list", "sent"} /\ x \in ProbeResults \cup {None}
      BY <1>3, <2>0 DEF ProbeRec
    <3>2. [probe[n] EXCEPT !.pc = p, !.result = x] \in ProbeRec
      BY <2>0, <3>1 DEF ProbeRec
    <3>. QED
      BY <2>0, <2>1, <3>2 DEF ProbeRec
  <2>3. ProbeTypes'
    <3>1. probe' \in [SP!Probes -> ProbeRec]
      BY <1>0, <1>3, <2>1, <2>2 DEF ProbeTypes
    <3>. QED
      BY <1>0, <1>3, <3>1 DEF ProbeTypes
  <2>4. \A m \in SP!Probes : m \in SP!Running' => m \in SP!Running
    BY <1>0, <1>3, <2>1, <2>2 DEF SP!Running
  <2>5. n \in SP!Running /\ installed \subseteq probe[n].had
    BY <1>0, <1>3 DEF SP!Running, ProbeInv
  <2>6. \A m \in SP!Probes : m \in SP!Running => installed \subseteq probe'[m].had
    BY <1>0, <2>1, <2>2 DEF ProbeInv
  <2>. QED
    BY <1>0, <1>3, <2>1, <2>2, <2>3, <2>4, <2>5, <2>6, ProbeGoesOn
<1>4. ASSUME NEW n \in SP!Probes, SP!NoHelp(n) \/ SP!Help(n) \/ SP!List(n)
      PROVE  ProbesInv'
  <2>1. installed \subseteq Distros /\ probe[n] \in ProbeRec
    BY <1>0 DEF ProbeTypes
  <2>2. CASE SP!Help(n)
    <3>1. probe' = [probe EXCEPT ![n].pc = "list", ![n].result = probe[n].result]
      BY <1>0, <2>1, <2>2 DEF SP!Help, ProbeTypes, ProbeRec
    <3>. QED
      BY <1>3, <2>2, <3>1 DEF SP!Help
  <2>3. ASSUME NEW x, SP!Send(n, x), probe[n].pc \in {"help", "list"}, UNCHANGED <<installed, next, slot, ask>>,
               x.distros \subseteq installed, x \in ProbeResults
        PROVE  ProbesInv'
    BY <1>3, <2>3 DEF SP!Send
  <2>6. \A why \in {"unavailable", "unknown"} :
          SP!Failing(why) \in ProbeResults /\ SP!Failing(why).distros \subseteq installed
    BY DEF SP!Failing, ProbeResults
  <2>7. SP!Listing(installed) \in ProbeResults /\ SP!Listing(installed).distros \subseteq installed
    BY <2>1 DEF SP!Listing, ProbeResults
  <2>4. CASE SP!NoHelp(n)
    <3>1. PICK why \in {"unavailable", "unknown"} : SP!Send(n, SP!Failing(why))
      BY <2>4 DEF SP!NoHelp
    <3>. QED
      BY <2>3, <2>4, <2>6, <3>1 DEF SP!NoHelp
  <2>5. CASE SP!List(n)
    <3>1. \/ SP!Send(n, SP!Failing("unknown")) \/ SP!Send(n, SP!Failing("unavailable"))
          \/ SP!Send(n, SP!Listing(installed))
      BY <2>5 DEF SP!List
    <3>2. CASE SP!Send(n, SP!Listing(installed))
      BY <2>3, <2>5, <2>7, <3>2 DEF SP!List
    <3>. QED
      BY <2>3, <2>5, <2>6, <3>1, <3>2 DEF SP!List
  <2>. QED
    BY <1>4, <2>2, <2>4, <2>5
<1>5. ASSUME NEW n \in SP!Probes, SP!Clear(n)
      PROVE  ProbesInv'
  <2>1. \A m \in SP!Probes : probe'[m] = IF m = n THEN [probe[n] EXCEPT !.pc = "over"] ELSE probe[m]
    BY <1>0, <1>5 DEF SP!Clear, ProbeTypes
  <2>0. probe[n] \in ProbeRec
    BY <1>0 DEF ProbeTypes
  <2>2. /\ probe'[n].pc = "over" /\ probe'[n].result = probe[n].result /\ probe'[n].had = probe[n].had
        /\ probe'[n] \in ProbeRec
    BY <2>0, <2>1 DEF ProbeRec
  <2>3. ProbeTypes' /\ installed' = installed /\ UNCHANGED <<next, ask>> /\ probe[n].pc = "sent"
    <3>1. probe' \in [SP!Probes -> ProbeRec]
      BY <1>0, <1>5, <2>1, <2>2 DEF SP!Clear, ProbeTypes
    <3>. QED
      BY <1>0, <1>5, <3>1 DEF SP!Clear, SP!Emptied, ProbeTypes
  <2>4. \A m \in SP!Probes : m \in SP!Running' => m \in SP!Running /\ m # n
    BY <1>0, <2>1, <2>2 DEF SP!Running
  <2>5. (slot' # None => slot' = slot) /\ (slot # n => slot' = slot)
    BY <1>5 DEF SP!Clear, SP!Emptied
  <2>6. \A m \in SP!Probes : m \in SP!Running' => slot' = slot /\ installed' \subseteq probe'[m].had
    BY <1>0, <2>1, <2>3, <2>4, <2>5 DEF ProbeInv
  <2>. QED
    BY <1>0, <2>1, <2>2, <2>3, <2>4, <2>5, <2>6, ProbeGoesOn
<1>6. ASSUME NEW r \in Requests, SP!Receive(r)
      PROVE  ProbesInv'
  <2>. DEFINE n == ask[r].probe
              a == SP!Answer(r, probe[n].result)
  <2>1. /\ ask[r].pc = "waiting" /\ probe[n].pc \in {"sent", "over"} /\ UNCHANGED <<installed, next, slot, probe>>
        /\ ask' = [ask EXCEPT ![r].pc = "answered", ![r].answer = a]
    BY <1>6 DEF SP!Receive
  <2>2. n \in SP!Probes /\ n < next /\ n \notin ask[r].over
    BY <1>0, <2>1 DEF AskInv
  <2>3. probe[n].result \in ProbeResults /\ probe[n].result.distros \subseteq probe[n].had
    BY <1>0, <2>1, <2>2 DEF ProbeInv
  <2>4. probe[n].result.is \in {"available", "unavailable", "unknown"}
    BY <2>3 DEF ProbeResults
  <2>5. a \in {"available", "unavailable", "unknown", "missing", "ok"}
    BY <2>4 DEF SP!Answer
  <2>6. a = "ok" => ask[r].distro = None \/ ask[r].distro \in probe[n].had
    BY <2>3, <2>4 DEF SP!Answer
  <2>. HIDE DEF a
  <2>7. \A q \in Requests : ask'[q] = IF q = r THEN [ask[r] EXCEPT !.pc = "answered", !.answer = a] ELSE ask[q]
    BY <1>0, <2>1 DEF ProbeTypes
  <2>8. /\ ask'[r].pc = "answered" /\ ask'[r].answer = a /\ ask'[r].probe = n
        /\ ask'[r].distro = ask[r].distro /\ ask'[r].over = ask[r].over /\ ask'[r] \in AskRec
    <3>1. ask[r] \in AskRec
      BY <1>0 DEF ProbeTypes
    <3>. QED
      BY <2>5, <2>7, <3>1 DEF AskRec
  <2>. HIDE DEF n
  <2>9. ProbeTypes'
    <3>1. ask' \in [Requests -> AskRec]
      BY <1>0, <2>1, <2>7, <2>8 DEF ProbeTypes
    <3>. QED
      BY <1>0, <2>1, <3>1 DEF ProbeTypes
  <2>10. ProbeInv'
    BY <1>0, <2>1 DEF ProbeInv, SP!Running
  <2>11. AskInv'
    <3>1. ASSUME NEW q \in Requests, q # r
          PROVE  ask'[q] = ask[q]
      BY <2>7, <3>1
    <3>2. n = ask[r].probe
      BY DEF n
    <3>. QED
      BY <1>0, <2>1, <2>2, <2>6, <2>8, <3>1, <3>2 DEF AskInv
  <2>. QED
    BY <2>9, <2>10, <2>11 DEF ProbesInv
<1>7. ASSUME UNCHANGED SP!vars
      PROVE  ProbesInv'
  BY <1>0, <1>7 DEF SP!vars, ProbesInv, ProbeTypes, ProbeInv, AskInv, SP!Running
<1>. QED
  BY <1>1, <1>2, <1>4, <1>5, <1>6, <1>7, ProbeAsked DEF SP!Next

\* Requests that come together share a probe, and no two probes are under way at once; what a
\* request is told was not found out before it asked, and a distribution that is confirmed has
\* been there since the probe began (platform/shell_probe.rs).
THEOREM ProbesAreShared ==
    ASSUME MaxProbes \in Nat, None \notin Nat \cup {"ok"}
    PROVE  SP!Spec => [](SP!OneProbe /\ SP!ProbedSinceAsked)
<1>1. ProbesInv => SP!OneProbe /\ SP!ProbedSinceAsked
  BY DEF ProbesInv, ProbeInv, AskInv, SP!OneProbe, SP!ProbedSinceAsked, SP!Running
<1>. QED
  BY <1>1, ProbesInit, ProbesStep, PTL DEF SP!Spec

-----------------------------------------------------------------------------
(* Agent tokens.                                                           *)

CONSTANTS Tokens, Expiring
VARIABLES tokens, revoked, expired, file, req, overlap, unsaved

TS == INSTANCE TokenStore

Contents == [Tokens -> Requests \cup {"old", None}]
SaveRec  == [pc : {"new", "collect", "write", "done"}, of : Tokens \cup {None}, left : SUBSET Tokens, got : Contents]

TokenTypes ==
    /\ tokens \in Contents /\ file \in Contents
    /\ expired \subseteq Expiring /\ revoked \subseteq Tokens
    /\ req \in [Requests -> SaveRec] /\ overlap \in BOOLEAN /\ unsaved \in BOOLEAN

\* As long as no two saves have met, the one on its way has collected what each token is
\* worth, and without one the file holds it.
TokenInv ==
    /\ \A t \in revoked : tokens[t] = None
    /\ \A r \in Requests : req[r].pc = "write" => req[r].left = {}
    /\ ~overlap =>
         /\ \A r, q \in Requests : TS!Saving(r) /\ TS!Saving(q) => r = q
         /\ \A r \in Requests : TS!Saving(r) => \A t \in Tokens \ req[r].left :
                                  TS!Worth(t, req[r].got) = TS!Worth(t, tokens)
         /\ (\A r \in Requests : ~TS!Saving(r)) =>
                unsaved \/ \A t \in Tokens : TS!Worth(t, tokens) = TS!Worth(t, file)

LEMMA TokenInit == TS!Init => TokenTypes /\ TokenInv
<1>. SUFFICES ASSUME TS!Init PROVE TokenTypes /\ TokenInv
  OBVIOUS
<1>1. TS!Nothing \in Contents /\ tokens \in Contents
  BY DEF TS!Init, TS!Nothing, Contents
<1>2. TokenTypes
  BY <1>1 DEF TS!Init, TokenTypes, SaveRec
<1>3. TokenInv
  BY DEF TS!Init, TokenInv, TS!Saving, TS!Worth
<1>. QED
  BY <1>2, <1>3

\* A change in the map, and the save that it begins.
LEMMA TokenChanges ==
    ASSUME TokenTypes, TokenInv, NEW r \in Requests, NEW t \in Tokens,
           TS!Create(r, t) \/ TS!Update(r, t) \/ TS!Revoke(r, t)
    PROVE  TokenTypes' /\ TokenInv'
<1>1. /\ req' = [req EXCEPT ![r] = [pc |-> "collect", of |-> t, left |-> Tokens, got |-> TS!Nothing]]
      /\ overlap' = (overlap \/ TS!Others(r)) /\ req[r].pc = "new" /\ UNCHANGED <<expired, file, unsaved>>
  BY DEF TS!Create, TS!Update, TS!Revoke, TS!ToSave
<1>2. PICK v \in Requests \cup {None} :
        /\ tokens' = [tokens EXCEPT ![t] = v] /\ revoked' \subseteq Tokens
        /\ \A s \in revoked' : s \in revoked \/ (s = t /\ v = None)
        /\ t \in revoked' => v = None
  <2>1. CASE TS!Create(r, t) \/ TS!Update(r, t)
    BY <2>1 DEF TS!Create, TS!Update, TokenTypes, TokenInv
  <2>2. CASE TS!Revoke(r, t)
    BY <2>2 DEF TS!Revoke, TokenTypes
  <2>. QED
    BY <2>1, <2>2
<1>3. [pc |-> "collect", of |-> t, left |-> Tokens, got |-> TS!Nothing] \in SaveRec
  BY DEF SaveRec, TS!Nothing, Contents
<1>4. TokenTypes'
  BY <1>1, <1>2, <1>3 DEF TokenTypes, Contents
<1>5. /\ \A q \in Requests \ {r} : req'[q] = req[q]
      /\ req'[r] = [pc |-> "collect", of |-> t, left |-> Tokens, got |-> TS!Nothing]
  BY <1>1 DEF TokenTypes
<1>6. req'[r].pc = "collect" /\ req'[r].left = Tokens
  BY <1>5
<1>7. TokenInv'
  <2>1. \A s \in revoked' : tokens'[s] = None
    BY <1>2 DEF TokenInv, TokenTypes, Contents
  <2>2. \A q \in Requests : req'[q].pc = "write" => req'[q].left = {}
    BY <1>5, <1>6 DEF TokenInv
  <2>3. ASSUME ~overlap' PROVE \A q \in Requests : TS!Saving(q)' => q = r
    BY <1>1, <1>5, <2>3 DEF TS!Others, TS!Saving
  <2>4. TS!Saving(r)'
    BY <1>6 DEF TS!Saving
  <2>. QED
    BY <1>6, <2>1, <2>2, <2>3, <2>4 DEF TokenInv
<1>. QED
  BY <1>4, <1>7

\* Time takes tokens away on both sides.
LEMMA TokenExpires ==
    ASSUME TokenTypes, TokenInv, UNCHANGED <<file, req, overlap, unsaved>>,
           expired \subseteq expired', expired' \subseteq Expiring, revoked' \subseteq revoked,
           tokens' \in Contents, \A t \in Tokens : tokens'[t] = tokens[t] \/ (t \in expired' /\ tokens'[t] = None)
    PROVE  TokenTypes' /\ TokenInv'
<1>1. TokenTypes'
  BY DEF TokenTypes, Contents, SaveRec
<1>2. \A r \in Requests : TS!Saving(r)' <=> TS!Saving(r)
  BY DEF TS!Saving
<1>3. ASSUME ~overlap, NEW r \in Requests, TS!Saving(r), NEW t \in Tokens \ req[r].left
      PROVE  TS!Worth(t, req[r].got)' = TS!Worth(t, tokens)'
  <2>1. TS!Worth(t, req[r].got) = TS!Worth(t, tokens)
    BY <1>3 DEF TokenInv
  <2>. QED
    BY <2>1 DEF TS!Worth
<1>4. ASSUME \A t \in Tokens : TS!Worth(t, tokens) = TS!Worth(t, file)
      PROVE  \A t \in Tokens : TS!Worth(t, tokens)' = TS!Worth(t, file)'
  BY <1>4 DEF TS!Worth
<1>5. \A t \in revoked' : tokens'[t] = None
  BY DEF TokenInv, TokenTypes
<1>. QED
  BY <1>1, <1>2, <1>3, <1>4, <1>5 DEF TokenInv

LEMMA TokenSaves ==
    ASSUME TokenTypes, TokenInv, NEW r \in Requests, TS!Collect(r) \/ TS!Write(r)
    PROVE  TokenTypes' /\ TokenInv'
<1>0. req[r] \in SaveRec /\ UNCHANGED <<tokens, revoked, expired, overlap>> /\ TS!Saving(r)
  BY DEF TokenTypes, TS!Collect, TS!Write, TS!Saving
<1>1. CASE TS!Collect(r)
  <2>1. PICK t \in req[r].left :
          req' = [req EXCEPT ![r].got[t] = tokens[t], ![r].left = @ \ {t},
                             ![r].pc = IF req[r].left = {t} THEN "write" ELSE "collect"]
    BY <1>1 DEF TS!Collect
  <2>. DEFINE to == IF req[r].left = {t} THEN "write" ELSE "collect"
              g == [req[r].got EXCEPT ![t] = tokens[t]]
              x == [req[r] EXCEPT !.got = g, !.left = req[r].left \ {t}, !.pc = to]
  <2>2. req' = [req EXCEPT ![r] = x] /\ UNCHANGED <<file, unsaved>>
    <3>1. UNCHANGED <<file, unsaved>>
      BY <1>1 DEF TS!Collect
    <3>2. req' = [req EXCEPT ![r] = x]
      BY <2>1 DEF TokenTypes
    <3>. QED
      BY <3>1, <3>2
  <2>3. x \in SaveRec /\ t \in Tokens
    <3>1. t \in Tokens /\ g \in Contents /\ to \in {"collect", "write"}
      BY <1>0 DEF SaveRec, TokenTypes, Contents
    <3>. HIDE DEF g, to
    <3>. QED
      BY <1>0, <3>1 DEF SaveRec
  <2>A. x.got = g /\ x.left = req[r].left \ {t} /\ x.pc = to
    BY <1>0 DEF SaveRec
  <2>. HIDE DEF x
  <2>4. TokenTypes'
    BY <1>0, <2>2, <2>3 DEF TokenTypes, Contents
  <2>5. req'[r] = x /\ \A q \in Requests \ {r} : req'[q] = req[q]
    BY <2>2 DEF TokenTypes
  <2>6. x.pc = "write" => x.left = {}
    BY <2>A
  <2>7. TS!Saving(r)' /\ \A q \in Requests : TS!Saving(q)' <=> TS!Saving(q)
    BY <1>0, <2>5, <2>A DEF TS!Saving
  <2>8. ASSUME ~overlap, NEW u \in Tokens \ x.left PROVE TS!Worth(u, x.got) = TS!Worth(u, tokens)
    <3>1. CASE u = t
      BY <1>0, <2>A, <3>1 DEF TS!Worth, SaveRec, Contents
    <3>2. CASE u # t
      <4>1. TS!Worth(u, req[r].got) = TS!Worth(u, tokens)
        BY <1>0, <2>8, <2>A, <3>2 DEF TokenInv
      <4>2. x.got[u] = req[r].got[u]
        BY <1>0, <2>A, <3>2 DEF SaveRec, Contents
      <4>. QED
        BY <4>1, <4>2 DEF TS!Worth
    <3>. QED
      BY <3>1, <3>2
  <2>9. \A u \in Tokens : TS!Worth(u, tokens)' = TS!Worth(u, tokens)
    BY <1>0 DEF TS!Worth
  <2>10. ASSUME ~overlap, NEW q \in Requests, TS!Saving(q)', NEW u \in Tokens \ req'[q].left
         PROVE  TS!Worth(u, req[q].got)' = TS!Worth(u, tokens)'
    <3>1. q = r
      BY <1>0, <2>7, <2>10 DEF TokenInv
    <3>2. TS!Worth(u, x.got) = TS!Worth(u, tokens)
      BY <2>5, <2>8, <2>10, <3>1
    <3>3. req'[q].got = x.got
      BY <2>5, <3>1
    <3>. HIDE DEF x
    <3>. QED
      BY <1>0, <3>2, <3>3 DEF TS!Worth
  <2>11. /\ \A u \in revoked' : tokens'[u] = None
         /\ \A q \in Requests : req'[q].pc = "write" => req'[q].left = {}
    BY <1>0, <2>5, <2>6 DEF TokenInv
  <2>12. ~overlap => \A p, q \in Requests : TS!Saving(p)' /\ TS!Saving(q)' => p = q
    BY <2>7 DEF TokenInv
  <2>. HIDE DEF x
  <2>. QED
    BY <1>0, <2>4, <2>7, <2>10, <2>11, <2>12 DEF TokenInv
<1>2. CASE TS!Write(r)
  <2>1. /\ req[r].pc = "write" /\ req' = [req EXCEPT ![r].pc = "done"]
        /\ \/ file' = req[r].got /\ unsaved' = FALSE
           \/ file' = file /\ unsaved' = TRUE
    BY <1>2 DEF TS!Write
  <2>2. [req[r] EXCEPT !.pc = "done"] \in SaveRec /\ req[r].got \in Contents
    BY <1>0 DEF SaveRec
  <2>3. TokenTypes'
    BY <1>0, <2>1, <2>2 DEF TokenTypes, Contents
  <2>4. req'[r] = [req[r] EXCEPT !.pc = "done"] /\ \A q \in Requests \ {r} : req'[q] = req[q]
    BY <2>1 DEF TokenTypes
  <2>5. req'[r].pc = "done"
    BY <1>0, <2>4 DEF SaveRec
  <2>6. \A q \in Requests : TS!Saving(q)' => TS!Saving(q) /\ q # r
    BY <2>4, <2>5 DEF TS!Saving
  <2>7. ASSUME ~overlap PROVE unsaved' \/ \A u \in Tokens : TS!Worth(u, tokens)' = TS!Worth(u, file)'
    <3>1. \A u \in Tokens : TS!Worth(u, req[r].got) = TS!Worth(u, tokens)
      BY <1>0, <2>1, <2>7 DEF TokenInv
    <3>. QED
      BY <1>0, <2>1, <3>1 DEF TS!Worth
  <2>8. /\ \A u \in revoked' : tokens'[u] = None
        /\ \A q \in Requests : req'[q].pc = "write" => req'[q].left = {}
    BY <1>0, <2>4, <2>5 DEF TokenInv
  <2>9. ~overlap => \A q \in Requests : ~TS!Saving(q)'
    BY <1>0, <2>6 DEF TokenInv
  <2>. QED
    BY <1>0, <2>3, <2>7, <2>8, <2>9 DEF TokenInv
<1>. QED
  BY <1>1, <1>2

LEMMA TokenRestarts ==
    ASSUME TokenTypes, TokenInv, TS!Restart
    PROVE  TokenTypes' /\ TokenInv'
<1>1. /\ file' \in {file, TS!Nothing} /\ tokens' = file' /\ revoked' = {} /\ UNCHANGED expired
      /\ unsaved' = FALSE /\ overlap' = FALSE
      /\ req' = [r \in Requests |-> IF TS!Saving(r) THEN [req[r] EXCEPT !.pc = "done"] ELSE req[r]]
  BY DEF TS!Restart
<1>2. \A r \in Requests : [req[r] EXCEPT !.pc = "done"] \in SaveRec /\ req[r] \in SaveRec
  BY DEF TokenTypes, SaveRec
<1>3. \A r \in Requests : req'[r] \in SaveRec /\ ~TS!Saving(r)' /\ (req'[r].pc = "write" => FALSE)
  <2>1. SUFFICES ASSUME NEW r \in Requests PROVE req'[r] \in SaveRec /\ req'[r].pc \notin {"collect", "write"}
    BY DEF TS!Saving
  <2>2. CASE TS!Saving(r)
    <3>1. req'[r] = [req[r] EXCEPT !.pc = "done"]
      BY <1>1, <2>2
    <3>. QED
      BY <1>2, <3>1 DEF SaveRec
  <2>3. CASE ~TS!Saving(r)
    BY <1>1, <1>2, <2>3 DEF TS!Saving
  <2>. QED
    BY <2>2, <2>3
<1>4. TokenTypes'
  <2>1. file' \in Contents
    BY <1>1 DEF TokenTypes, Contents, TS!Nothing
  <2>2. req' \in [Requests -> SaveRec]
    BY <1>1, <1>3
  <2>. QED
    BY <1>1, <2>1, <2>2 DEF TokenTypes, SaveRec, Contents
<1>5. TokenInv'
  BY <1>1, <1>3 DEF TokenInv, TS!Worth
<1>. QED
  BY <1>4, <1>5

\* For any number of requests and tokens: with no save on its way, and since the start no
\* two that met and none that failed last, every token is worth now what it is after a
\* restart, whatever expired, was revoked or cleaned up meanwhile; and a revoked token is
\* worth nothing at any time (token.rs).
THEOREM TokensSurvive == TS!Spec => [](TS!TypeOK /\ TS!TokensSaved)
<1>1. ASSUME TokenTypes /\ TokenInv, [TS!Next]_(TS!vars) PROVE (TokenTypes /\ TokenInv)'
  <2>1. ASSUME NEW t \in Tokens, TS!Expire(t) PROVE (TokenTypes /\ TokenInv)'
    <3>1. /\ UNCHANGED <<file, req, overlap, unsaved, tokens, revoked>> /\ expired \subseteq expired'
          /\ expired' \subseteq Expiring
      BY <1>1, <2>1 DEF TS!Expire, TokenTypes
    <3>. QED
      BY <1>1, <3>1, TokenExpires DEF TokenTypes
  <2>2. CASE TS!Cleanup
    <3>1. /\ UNCHANGED <<file, req, overlap, unsaved, expired>> /\ revoked' \subseteq revoked
          /\ tokens' = [t \in Tokens |-> IF t \in expired THEN None ELSE tokens[t]] /\ expired \subseteq Expiring
      BY <1>1, <2>2 DEF TS!Cleanup, TokenTypes
    <3>2. tokens' \in Contents
      BY <1>1, <3>1 DEF TokenTypes, Contents
    <3>. QED
      BY <1>1, <3>1, <3>2, TokenExpires
  <2>3. CASE UNCHANGED TS!vars
    <3>1. /\ UNCHANGED <<file, req, overlap, unsaved, expired, revoked, tokens>> /\ expired \subseteq Expiring
          /\ tokens \in Contents
      BY <1>1, <2>3 DEF TS!vars, TokenTypes
    <3>. QED
      BY <1>1, <3>1, TokenExpires
  <2>. QED
    BY <1>1, <2>1, <2>2, <2>3, TokenChanges, TokenSaves, TokenRestarts DEF TS!Next
<1>2. ASSUME TokenTypes, TokenInv PROVE TS!TypeOK /\ TS!TokensSaved
  <2>1. TS!TypeOK
    BY <1>2 DEF TokenTypes, Contents, TS!TypeOK
  <2>2. TS!TokensSaved
    BY <1>2 DEF TokenInv, TS!TokensSaved
  <2>. QED
    BY <2>1, <2>2
<1>. QED
  BY <1>1, <1>2, TokenInit, PTL DEF TS!Spec

-----------------------------------------------------------------------------
(* Settings and the list of workspaces.                                    *)

CONSTANTS OldClients, Workspaces, Paths, Conns
VARIABLES mem, list, listFile, last, unlisted

SS == INSTANCE SettingsStore

StoreTypes ==
    /\ mem \in SS!Settings /\ file \in SS!Settings \cup {None}
    /\ DOMAIN req = Requests /\ \A h \in Requests : DOMAIN req[h] = {"pc", "copy", "id"}
    /\ \A h \in Requests : SS!InPut(h) => req[h].copy \in SS!Settings
    /\ overlap \in BOOLEAN /\ unsaved \in BOOLEAN /\ unlisted \in BOOLEAN

\* As long as no PUT has been overtaken, each carries the workspace that is active, one that
\* is through with the file is the file, and without one memory is (or a save failed).
StoreInv ==
    /\ ~overlap =>
         /\ mem.active = last
         /\ \A h \in Requests : SS!InPut(h) => req[h].copy.active = last
         /\ \A h \in Requests : req[h].pc = "write" => file = req[h].copy
         /\ unsaved \/ mem = file \/ \E h \in Requests : req[h].pc = "write"
    /\ unlisted \/ list = listFile \/ \E h \in Requests : req[h].pc = "savelist"

\* The list holds what its file holds, once no delete is on its way.
ListIsSaved == (\A h \in Requests : req[h].pc # "savelist") => unlisted \/ list = listFile

LEMMA StoreInit == SS!Init => StoreTypes /\ StoreInv
<1>. SUFFICES ASSUME SS!Init PROVE StoreTypes /\ StoreInv
  OBVIOUS
<1>1. SS!Default \in SS!Settings /\ [SS!Default EXCEPT !.server = SS!Server(None, FALSE)] \in SS!Settings
  BY DEF SS!Default, SS!Settings, SS!Server, SS!Writers
<1>2. SS!Default.active = None /\ [SS!Default EXCEPT !.server = SS!Server(None, FALSE)].active = None
  BY DEF SS!Default
<1>3. StoreTypes
  BY <1>1 DEF SS!Init, StoreTypes, SS!InPut
<1>4. StoreInv
  BY <1>2 DEF SS!Init, StoreInv, SS!InPut
<1>. QED
  BY <1>3, <1>4

\* A PUT reads the settings: the copy it will store has the workspace that is active.
LEMMA StorePuts ==
    ASSUME StoreTypes, StoreInv, NEW h \in Requests, SS!PutSettings(h) \/ SS!PutRemoteServers(h)
    PROVE  StoreTypes' /\ StoreInv'
<1>0. req[h].pc = "new" /\ UNCHANGED <<mem, file, last, overlap, unsaved, list, listFile, unlisted>>
  BY DEF SS!PutSettings, SS!PutRemoteServers, SS!New, SS!settingsVars, SS!listVars
<1>1. ASSUME NEW body \in SS!SentServers(h)
      PROVE  SS!Inherited(body, mem.server) \in {None} \cup [token : SS!Writers, seen : BOOLEAN]
  <2>1. mem.server \in {None} \cup [token : SS!Writers, seen : BOOLEAN]
    BY DEF StoreTypes, SS!Settings
  <2>2. CASE body = None
    BY <2>2 DEF SS!Inherited
  <2>3. CASE body # None /\ body = SS!Server(h, FALSE) /\ body.token # "kept"
    BY <2>3 DEF SS!Inherited, SS!Server, SS!Writers
  <2>4. CASE body # None /\ body.token = "kept"
    <3>1. body \in [token : {"kept", h}, seen : BOOLEAN]
      <4>1. /\ [token |-> "kept", seen |-> FALSE] \in [token : {"kept", h}, seen : BOOLEAN]
            /\ [token |-> h, seen |-> FALSE] \in [token : {"kept", h}, seen : BOOLEAN]
        OBVIOUS
      <4>2. body = [token |-> "kept", seen |-> FALSE] \/ body = [token |-> h, seen |-> FALSE]
        BY <1>1, <2>4 DEF SS!SentServers, SS!Server
      <4>. QED
        BY <4>1, <4>2
    <3>2. PICK v \in SS!Writers : SS!Inherited(body, mem.server) = [body EXCEPT !.token = v]
      BY <2>1, <2>4 DEF SS!Inherited, SS!Writers
    <3>3. [body EXCEPT !.token = v] \in [token : SS!Writers, seen : BOOLEAN]
      BY <3>1
    <3>. QED
      BY <3>2, <3>3
  <2>. QED
    BY <1>1, <2>2, <2>3, <2>4 DEF SS!SentServers, SS!Server
<1>2. PICK copy \in SS!Settings : /\ copy.active = mem.active
                                  /\ req' = [req EXCEPT ![h].pc = "save", ![h].copy = copy]
  <2>1. CASE SS!PutSettings(h)
    <3>1. PICK body \in SS!SentServers(h) : req' = [req EXCEPT ![h].pc = "save", ![h].copy = SS!Merged(h, body)]
      BY <2>1 DEF SS!PutSettings
    <3>2. SS!Merged(h, body) \in SS!Settings /\ SS!Merged(h, body).active = mem.active
      BY <1>1 DEF SS!Merged, SS!Settings, StoreTypes, SS!Writers
    <3>. QED
      BY <3>1, <3>2
  <2>2. CASE SS!PutRemoteServers(h)
    <3>1. PICK body \in SS!SentServers(h) :
            req' = [req EXCEPT ![h].pc = "save", ![h].copy = [mem EXCEPT !.server = SS!Inherited(body, mem.server)]]
      BY <2>2 DEF SS!PutRemoteServers, StoreTypes, SS!Settings
    <3>. DEFINE s == SS!Inherited(body, mem.server)
    <3>2. s \in {None} \cup [token : SS!Writers, seen : BOOLEAN]
      BY <1>1
    <3>. HIDE DEF s
    <3>3. [mem EXCEPT !.server = s] \in SS!Settings /\ [mem EXCEPT !.server = s].active = mem.active
      BY <3>2 DEF StoreTypes, SS!Settings
    <3>. QED
      BY <3>1, <3>3 DEF s
  <2>. QED
    BY <2>1, <2>2
<1>3. /\ req'[h].pc = "save" /\ req'[h].copy = copy /\ DOMAIN req'[h] = {"pc", "copy", "id"}
      /\ DOMAIN req' = Requests /\ \A g \in Requests \ {h} : req'[g] = req[g]
  BY <1>2 DEF StoreTypes
<1>4. \A g \in Requests \ {h} : SS!InPut(g)' <=> SS!InPut(g)
  BY <1>3 DEF SS!InPut
<1>5. StoreTypes'
  BY <1>0, <1>2, <1>3, <1>4 DEF StoreTypes, SS!Settings, SS!Writers
<1>6. StoreInv'
  <2>1. ASSUME ~overlap PROVE \A g \in Requests : SS!InPut(g)' => req'[g].copy.active = last
    BY <1>2, <1>3, <1>4, <2>1 DEF StoreInv
  <2>2. ASSUME ~overlap PROVE \A g \in Requests : req'[g].pc = "write" => file = req'[g].copy
    BY <1>3, <2>2 DEF StoreInv
  <2>3. ASSUME ~overlap PROVE unsaved \/ mem = file \/ \E g \in Requests : req'[g].pc = "write"
    BY <1>0, <1>3, <2>3 DEF StoreInv
  <2>4. unlisted \/ list = listFile \/ \E g \in Requests : req'[g].pc = "savelist"
    BY <1>0, <1>3 DEF StoreInv
  <2>5. ~overlap => mem.active = last
    BY DEF StoreInv
  <2>. QED
    BY <1>0, <2>1, <2>2, <2>3, <2>4, <2>5 DEF StoreInv
<1>. QED
  BY <1>5, <1>6

\* What saves the copy, and puts it in place.
LEMMA StoreStores ==
    ASSUME StoreTypes, StoreInv, NEW h \in Requests, SS!SaveCopy(h) \/ SS!StoreCopy(h)
    PROVE  StoreTypes' /\ StoreInv'
<1>0. /\ UNCHANGED <<last, list, listFile, unlisted>> /\ req[h].copy \in SS!Settings /\ SS!InPut(h)
      /\ req[h].pc # "savelist"
  BY DEF SS!SaveCopy, SS!StoreCopy, SS!settingsVars, SS!listVars, StoreTypes, SS!InPut
<1>1. PICK to \in {"write", "done"} :
        /\ req' = [req EXCEPT ![h].pc = to] /\ (overlap' = overlap \/ overlap' = SS!Overtaking(h))
        /\ \/ /\ req[h].pc = "save" /\ to = "write" /\ file' = req[h].copy /\ UNCHANGED <<mem, unsaved>>
              /\ overlap' = SS!Overtaking(h)
           \/ req[h].pc = "save" /\ to = "done" /\ UNCHANGED <<mem, file, unsaved, overlap>>
           \/ /\ req[h].pc = "write" /\ to = "done" /\ mem' = req[h].copy /\ unsaved' = FALSE /\ file' = file
              /\ overlap' = SS!Overtaking(h)
  BY DEF SS!SaveCopy, SS!StoreCopy, SS!Done
<1>2. /\ req'[h].pc = to /\ req'[h].copy = req[h].copy /\ DOMAIN req'[h] = {"pc", "copy", "id"}
      /\ DOMAIN req' = Requests /\ \A g \in Requests \ {h} : req'[g] = req[g]
  BY <1>1 DEF StoreTypes
<1>3. \A g \in Requests \ {h} : SS!InPut(g)' <=> SS!InPut(g)
  BY <1>2 DEF SS!InPut
<1>4. overlap' \in BOOLEAN /\ (overlap => overlap')
  <2>1. SS!Overtaking(h) \in BOOLEAN /\ (overlap => SS!Overtaking(h)) /\ overlap \in BOOLEAN
    BY DEF SS!Overtaking, StoreTypes
  <2>2. CASE overlap' = overlap
    BY <2>1, <2>2
  <2>3. CASE overlap' = SS!Overtaking(h)
    BY <2>1, <2>3
  <2>. QED
    BY <1>1, <2>2, <2>3
<1>5. StoreTypes'
  <2>1. mem' \in SS!Settings /\ file' \in SS!Settings \cup {None} /\ unsaved' \in BOOLEAN
    BY <1>0, <1>1 DEF StoreTypes
  <2>2. \A g \in Requests : SS!InPut(g)' => req'[g].copy \in SS!Settings
    BY <1>0, <1>2, <1>3 DEF StoreTypes
  <2>. QED
    BY <1>0, <1>2, <1>4, <2>1, <2>2 DEF StoreTypes, SS!Settings, SS!Writers
<1>6. unlisted' \/ list' = listFile' \/ \E g \in Requests : req'[g].pc = "savelist"
  BY <1>0, <1>2 DEF StoreInv
<1>7. ASSUME ~overlap'
      PROVE  /\ mem'.active = last
             /\ \A g \in Requests : SS!InPut(g)' => req'[g].copy.active = last
             /\ \A g \in Requests : req'[g].pc = "write" => file' = req'[g].copy
             /\ unsaved' \/ mem' = file' \/ \E g \in Requests : req'[g].pc = "write"
  <2>0. ~overlap
    BY <1>4, <1>7
  <2>1. mem'.active = last /\ \A g \in Requests : SS!InPut(g)' => req'[g].copy.active = last
    BY <1>0, <1>1, <1>2, <1>3, <2>0 DEF StoreInv
  <2>2. CASE overlap' = SS!Overtaking(h)
    <3>1. \A g \in Requests \ {h} : ~SS!InPut(g) /\ req[g].pc # "write"
      BY <1>7, <2>2 DEF SS!Overtaking, SS!InPut
    <3>2. \A g \in Requests : req'[g].pc = "write" => file' = req'[g].copy
      BY <1>1, <1>2, <3>1
    <3>3. unsaved' \/ mem' = file' \/ \E g \in Requests : req'[g].pc = "write"
      BY <1>1, <1>2, <2>0, <3>1 DEF StoreInv
    <3>. QED
      BY <2>1, <3>2, <3>3
  <2>3. CASE req[h].pc = "save" /\ to = "done" /\ UNCHANGED <<mem, file, unsaved>>
    BY <1>2, <2>0, <2>1, <2>3 DEF StoreInv
  <2>. QED
    BY <1>1, <2>2, <2>3
<1>. QED
  BY <1>0, <1>5, <1>6, <1>7 DEF StoreInv

\* A change under the write lock, of a request that is done by it.
LEMMA StoreChanges ==
    ASSUME StoreTypes, StoreInv, NEW h \in Requests, ~SS!InPut(h), req[h].pc # "savelist", SS!Done(h),
           NEW new \in SS!Settings, SS!ChangeSettings(h, new), last' = new.active, UNCHANGED <<list, listFile, unlisted>>
    PROVE  StoreTypes' /\ StoreInv'
<1>1. /\ mem' = new /\ overlap' = SS!Overtaking(h) /\ req' = [req EXCEPT ![h].pc = "done"]
      /\ (file' = new /\ unsaved' = FALSE) \/ (file' = file /\ unsaved' = TRUE)
  BY DEF SS!ChangeSettings, SS!Done
<1>2. /\ req'[h].pc = "done" /\ DOMAIN req'[h] = {"pc", "copy", "id"}
      /\ DOMAIN req' = Requests /\ \A g \in Requests \ {h} : req'[g] = req[g]
  BY <1>1 DEF StoreTypes
<1>3. /\ \A g \in Requests : SS!InPut(g)' => g # h /\ SS!InPut(g)
      /\ ~overlap' => \A g \in Requests : ~SS!InPut(g)' /\ req'[g].pc # "write"
  BY <1>1, <1>2 DEF SS!InPut, SS!Overtaking
<1>4. StoreTypes'
  BY <1>1, <1>2, <1>3 DEF StoreTypes, SS!Settings, SS!Writers, SS!Overtaking
<1>5. StoreInv'
  BY <1>1, <1>2, <1>3 DEF StoreInv
<1>. QED
  BY <1>4, <1>5

LEMMA StoreActs ==
    ASSUME StoreTypes, StoreInv, NEW h \in Requests,
           SS!Activate(h) \/ SS!RememberVersion(h) \/ SS!UploadBackground(h) \/ SS!ClearActive(h)
    PROVE  StoreTypes' /\ StoreInv'
<1>0. /\ UNCHANGED <<list, listFile, unlisted>> /\ SS!Done(h) /\ ~SS!InPut(h) /\ req[h].pc # "savelist"
      /\ mem \in SS!Settings
  BY DEF SS!Activate, SS!RememberVersion, SS!UploadBackground, SS!ClearActive, SS!listVars, SS!New, SS!InPut, StoreTypes
<1>1. ASSUME NEW w \in Workspaces \cup {None}, SS!ChangeSettings(h, [mem EXCEPT !.active = w]), last' = w
      PROVE  StoreTypes' /\ StoreInv'
  <2>1. [mem EXCEPT !.active = w] \in SS!Settings /\ [mem EXCEPT !.active = w].active = w
    BY <1>0 DEF SS!Settings
  <2>. QED
    BY <1>0, <1>1, <2>1, StoreChanges
<1>2. CASE SS!Activate(h)
  BY <1>1, <1>2 DEF SS!Activate
<1>3. ASSUME NEW new \in SS!Settings, new.active = mem.active, SS!ChangeSettings(h, new), last' = last
      PROVE  StoreTypes' /\ StoreInv'
  <2>1. CASE overlap
    <3>1. /\ mem' = new /\ overlap' = TRUE /\ req' = [req EXCEPT ![h].pc = "done"]
          /\ (file' = new /\ unsaved' = FALSE) \/ (file' = file /\ unsaved' = TRUE)
      BY <1>0, <1>3, <2>1 DEF SS!ChangeSettings, SS!Done, SS!Overtaking
    <3>2. /\ req'[h].pc = "done" /\ DOMAIN req'[h] = {"pc", "copy", "id"}
          /\ DOMAIN req' = Requests /\ \A g \in Requests \ {h} : req'[g] = req[g]
      BY <3>1 DEF StoreTypes
    <3>3. \A g \in Requests : SS!InPut(g)' => g # h /\ SS!InPut(g)
      BY <3>2 DEF SS!InPut
    <3>4. StoreTypes'
      BY <1>0, <1>3, <3>1, <3>2, <3>3 DEF StoreTypes, SS!Settings, SS!Writers
    <3>. QED
      BY <1>0, <3>1, <3>2, <3>4 DEF StoreInv
  <2>2. CASE ~overlap
    <3>1. last' = new.active
      BY <1>3, <2>2 DEF StoreInv
    <3>. QED
      BY <1>0, <1>3, <3>1, StoreChanges
  <2>. QED
    BY <2>1, <2>2 DEF StoreTypes
<1>4. CASE SS!RememberVersion(h)
  <2>1. mem.server \in [token : SS!Writers, seen : BOOLEAN]
    BY <1>0, <1>4 DEF SS!RememberVersion, SS!Settings
  <2>. DEFINE s == [mem.server EXCEPT !.seen = TRUE]
  <2>2. s \in [token : SS!Writers, seen : BOOLEAN]
    BY <2>1
  <2>3. SS!ChangeSettings(h, [mem EXCEPT !.server = s]) /\ last' = last
    <3>1. [mem EXCEPT !.server.seen = TRUE] = [mem EXCEPT !.server = s]
      BY <1>0 DEF SS!Settings
    <3>. QED
      BY <1>4, <3>1 DEF SS!RememberVersion
  <2>. HIDE DEF s
  <2>4. [mem EXCEPT !.server = s] \in SS!Settings /\ [mem EXCEPT !.server = s].active = mem.active
    BY <1>0, <2>2 DEF SS!Settings
  <2>. QED
    BY <1>3, <2>3, <2>4
<1>5. CASE SS!UploadBackground(h)
  <2>1. [mem EXCEPT !.prefs = h] \in SS!Settings /\ [mem EXCEPT !.prefs = h].active = mem.active
    BY <1>0 DEF SS!Settings, SS!Writers
  <2>. QED
    BY <1>3, <1>5, <2>1 DEF SS!UploadBackground
<1>6. CASE SS!ClearActive(h)
  <2>1. CASE mem.active = req[h].id
    BY <1>1, <1>6, <2>1 DEF SS!ClearActive
  <2>2. CASE mem.active # req[h].id
    <3>1. /\ req' = [req EXCEPT ![h].pc = "done"] /\ UNCHANGED <<mem, file, last, overlap, unsaved>>
      BY <1>6, <2>2 DEF SS!ClearActive, SS!Done, SS!settingsVars
    <3>2. /\ req'[h].pc = "done" /\ DOMAIN req'[h] = {"pc", "copy", "id"}
          /\ DOMAIN req' = Requests /\ \A g \in Requests \ {h} : req'[g] = req[g]
      BY <3>1 DEF StoreTypes
    <3>3. \A g \in Requests : SS!InPut(g)' => g # h /\ SS!InPut(g)
      BY <3>2 DEF SS!InPut
    <3>4. StoreTypes'
      BY <1>0, <3>1, <3>2, <3>3 DEF StoreTypes, SS!Settings, SS!Writers
    <3>5. req[h].pc = "clear"
      BY <1>6 DEF SS!ClearActive
    <3>6. StoreInv'
      BY <1>0, <3>1, <3>2, <3>3, <3>5 DEF StoreInv
    <3>. QED
      BY <3>4, <3>6
  <2>. QED
    BY <2>1, <2>2
<1>. QED
  BY <1>2, <1>4, <1>5, <1>6

\* The list, which leaves the settings alone.
LEMMA StoreLists ==
    ASSUME StoreTypes, StoreInv, NEW h \in Requests,
           \/ SS!CreateWorkspace(h) \/ SS!UpdateWorkspace(h) \/ SS!ReorderWorkspaces(h)
           \/ SS!DeleteWorkspace(h) \/ SS!SaveRest(h)
    PROVE  StoreTypes' /\ StoreInv'
<1>1. UNCHANGED <<mem, file, last, overlap, unsaved>> /\ ~SS!InPut(h)
  BY DEF SS!CreateWorkspace, SS!UpdateWorkspace, SS!ReorderWorkspaces, SS!DeleteWorkspace, SS!SaveRest, SS!settingsVars,
         SS!New, SS!InPut
<1>2. PICK r : /\ req' = [req EXCEPT ![h] = r] /\ DOMAIN r = {"pc", "copy", "id"} /\ r.pc \in {"done", "savelist", "clear"}
               /\ unlisted' \in BOOLEAN
               /\ r.pc # "savelist" => unlisted' \/ list' = listFile' \/ (list' = list /\ listFile' = listFile /\ unlisted' = unlisted)
               /\ req[h].pc = "savelist" => unlisted' \/ list' = listFile'
  <2>1. CASE SS!CreateWorkspace(h) \/ SS!UpdateWorkspace(h) \/ SS!ReorderWorkspaces(h)
    <3>1. /\ req' = [req EXCEPT ![h].pc = "done"] /\ req[h].pc = "new"
      BY <2>1 DEF SS!CreateWorkspace, SS!UpdateWorkspace, SS!ReorderWorkspaces, SS!Done, SS!New
    <3>2. \/ SS!SaveList(list')
          \/ listFile' = listFile /\ unlisted' = (unlisted \/ list' # list)
      <4>1. CASE SS!CreateWorkspace(h)
        BY <4>1 DEF SS!CreateWorkspace
      <4>2. CASE SS!UpdateWorkspace(h)
        BY <4>2 DEF SS!UpdateWorkspace
      <4>3. CASE SS!ReorderWorkspaces(h)
        BY <4>3 DEF SS!ReorderWorkspaces
      <4>. QED
        BY <2>1, <4>1, <4>2, <4>3
    <3>3. /\ unlisted' \in BOOLEAN
          /\ unlisted' \/ list' = listFile' \/ (list' = list /\ listFile' = listFile /\ unlisted' = unlisted)
      BY <3>2 DEF SS!SaveList, StoreTypes
    <3>. DEFINE r == [req[h] EXCEPT !.pc = "done"]
    <3>4. req' = [req EXCEPT ![h] = r] /\ DOMAIN r = {"pc", "copy", "id"} /\ r.pc = "done"
      BY <3>1 DEF StoreTypes
    <3>. HIDE DEF r
    <3>. QED
      BY <3>1, <3>3, <3>4
  <2>2. CASE SS!DeleteWorkspace(h)
    <3>1. \E x, y : req' = [req EXCEPT ![h] = [pc |-> "savelist", copy |-> x, id |-> y]]
      BY <2>2 DEF SS!DeleteWorkspace
    <3>2. unlisted' = unlisted /\ req[h].pc = "new"
      BY <2>2 DEF SS!DeleteWorkspace, SS!New
    <3>. QED
      BY <3>1, <3>2 DEF StoreTypes
  <2>3. CASE SS!SaveRest(h)
    <3>1. req' = [req EXCEPT ![h].pc = "clear"] /\ SS!SaveList(list) /\ list' = list
      BY <2>3 DEF SS!SaveRest
    <3>. DEFINE r == [req[h] EXCEPT !.pc = "clear"]
    <3>2. req' = [req EXCEPT ![h] = r] /\ DOMAIN r = {"pc", "copy", "id"} /\ r.pc = "clear"
      BY <3>1 DEF StoreTypes
    <3>. HIDE DEF r
    <3>. QED
      BY <3>1, <3>2 DEF SS!SaveList
  <2>. QED
    BY <2>1, <2>2, <2>3
<1>3. req'[h] = r /\ DOMAIN req' = Requests /\ \A g \in Requests \ {h} : req'[g] = req[g]
  BY <1>2 DEF StoreTypes
<1>4. \A g \in Requests : SS!InPut(g)' => g # h /\ SS!InPut(g)
  BY <1>2, <1>3 DEF SS!InPut
<1>5. StoreTypes'
  BY <1>1, <1>2, <1>3, <1>4 DEF StoreTypes, SS!Settings, SS!Writers
<1>6. unlisted' \/ list' = listFile' \/ \E g \in Requests : req'[g].pc = "savelist"
  BY <1>2, <1>3 DEF StoreInv
<1>7. \A g \in Requests : (req'[g].pc = "write" <=> req[g].pc = "write") /\ (req[g].pc = "write" => req'[g] = req[g])
  BY <1>1, <1>2, <1>3 DEF SS!InPut
<1>8. StoreInv'
  BY <1>1, <1>3, <1>4, <1>6, <1>7 DEF StoreInv
<1>. QED
  BY <1>5, <1>8

LEMMA StoreRestarts ==
    ASSUME StoreTypes, StoreInv, SS!Restart
    PROVE  StoreTypes' /\ StoreInv'
<1>1. /\ file' \in {file, None} /\ mem' = IF file' = None THEN SS!Default ELSE file'
      /\ unsaved' = (file' = None) /\ last' = mem'.active
  BY DEF SS!Restart
<1>2. list' = IF listFile' = None THEN <<>> ELSE listFile'
  BY DEF SS!Restart
<1>3. unlisted' = (listFile' = None) /\ overlap' = FALSE
  BY DEF SS!Restart
<1>4. req' = [h \in Requests |-> [req[h] EXCEPT !.pc = IF SS!New(h) THEN "new" ELSE "done"]]
  BY DEF SS!Restart
<1>5. DOMAIN req' = Requests /\ \A h \in Requests : DOMAIN req'[h] = {"pc", "copy", "id"} /\ req'[h].pc \in {"new", "done"}
  BY <1>4 DEF StoreTypes
<1>6. SS!Default \in SS!Settings
  BY DEF SS!Default, SS!Settings, SS!Writers
<1>7. StoreTypes'
  BY <1>1, <1>3, <1>5, <1>6 DEF StoreTypes, SS!InPut, SS!Settings, SS!Writers
<1>8. StoreInv'
  BY <1>1, <1>2, <1>3, <1>5 DEF StoreInv, SS!InPut
<1>. QED
  BY <1>7, <1>8

\* For any number of requests: as long as no PUT of all the settings is overtaken by another
\* change, settings.json holds what memory holds once the PUTs are through (or the last save
\* failed), and no PUT moves the active workspace; whatever overlaps, workspaces.json holds
\* the list once no deletion is on its way, unless saving it failed or an update was refused
\* halfway (settings/handlers.rs, workspace_mgmt/handlers.rs).
THEOREM SettingsAreOnDisk == SS!Spec => [](SS!SettingsSaved /\ ListIsSaved)
<1>1. ASSUME StoreTypes /\ StoreInv, [SS!Next]_(SS!vars) PROVE (StoreTypes /\ StoreInv)'
  <2>1. CASE UNCHANGED SS!vars
    <3>1. UNCHANGED <<mem, file, last, overlap, unsaved, list, listFile, unlisted, req>>
      BY <2>1 DEF SS!vars, SS!settingsVars, SS!listVars
    <3>. QED
      BY <1>1, <3>1 DEF StoreTypes, StoreInv, SS!InPut, SS!Settings, SS!Writers
  <2>2. ASSUME NEW h \in Requests, SS!SettingsStep(h) \/ SS!ListStep(h) PROVE (StoreTypes /\ StoreInv)'
    BY <1>1, <2>2, StorePuts, StoreStores, StoreActs, StoreLists DEF SS!SettingsStep, SS!ListStep
  <2>. QED
    BY <1>1, <2>1, <2>2, StoreRestarts DEF SS!Next
<1>2. ASSUME StoreTypes, StoreInv PROVE SS!SettingsSaved /\ ListIsSaved
  BY <1>2 DEF StoreTypes, StoreInv, SS!SettingsSaved, SS!InPut, ListIsSaved
<1>. QED
  BY <1>1, <1>2, StoreInit, PTL DEF SS!Spec

-----------------------------------------------------------------------------
(* The window of the desktop program.                                      *)

CONSTANTS Callers, MaxHides
VARIABLES tray, window, visible, phase, pc, jobs, owed, hides

WN == INSTANCE WindowActions

\* A window that is there and asked for is to be seen; one that is not there will be, or
\* somebody is about to have it created.
WindowInv == WN!TypeOK /\ WN!RequestsShow /\ (window /\ owed => visible)

\* For any number of callers: who asks for the main window gets it, by his own creation or
\* by the one that made the code refuse his, unless it is hidden, or the system refuses it,
\* after he asked; and no creation stays marked as under way when none is
\* (window_actions.rs).
THEOREM WindowComesWhenAsked ==
    ASSUME MaxHides \in Nat
    PROVE  WN!Spec => [](WN!TypeOK /\ WN!RequestsShow)
<1>1. ASSUME WN!Init PROVE WindowInv
  <2>1. /\ tray \in {"full", "showOnly", "unavailable"} /\ jobs = 0 /\ hides = 0 /\ pc = [k \in Callers |-> "idle"]
        /\ phase \in {"ready", "absent"} /\ visible = window /\ owed = window /\ window \in BOOLEAN
    BY <1>1 DEF WN!Init
  <2>2. jobs \in Nat /\ hides \in 0 .. MaxHides
    BY <2>1
  <2>3. WN!TypeOK
    BY <2>1, <2>2 DEF WN!TypeOK
  <2>. QED
    BY <2>1, <2>3 DEF WindowInv, WN!RequestsShow
<1>2. ASSUME WindowInv, NEW k \in Callers, WN!Look(k) PROVE WindowInv'
  <2>1. pc[k] \in {"idle", "revealing"} /\ tray' = tray /\ jobs' = jobs /\ hides' = hides
    BY <1>2 DEF WN!Look, WN!Show
  <2>2. CASE window
    <3>1. /\ window' = window /\ phase' = "ready" /\ visible' = TRUE /\ owed' = TRUE /\ pc' = [pc EXCEPT ![k] = "idle"]
      BY <1>2, <2>2 DEF WN!Look, WN!Show, WN!Goes
    <3>. QED
      BY <1>2, <2>1, <2>2, <3>1 DEF WindowInv, WN!TypeOK, WN!RequestsShow
  <2>3. CASE ~window
    <3>1. /\ UNCHANGED <<window, phase, visible>> /\ owed' = TRUE /\ pc' = [pc EXCEPT ![k] = "looked"]
      BY <1>2, <2>3 DEF WN!Look, WN!Goes
    <3>2. pc'[k] = "looked" /\ \A j \in Callers \ {k} : pc'[j] = pc[j]
      BY <1>2, <3>1 DEF WindowInv, WN!TypeOK
    <3>. QED
      BY <1>2, <2>1, <2>3, <3>1, <3>2 DEF WindowInv, WN!TypeOK, WN!RequestsShow
  <2>. QED
    BY <2>2, <2>3
<1>3. ASSUME WindowInv, NEW k \in Callers, WN!Begin(k) PROVE WindowInv'
  <2>1. pc[k] = "looked" /\ UNCHANGED <<tray, window, visible, jobs, owed, hides>>
    BY <1>3 DEF WN!Begin
  <2>2. CASE phase = "creating"
    <3>1. phase' = phase /\ pc' = [pc EXCEPT ![k] = "idle"]
      BY <1>3, <2>2 DEF WN!Begin, WN!Goes
    <3>2. pc'[k] = "idle" /\ \A j \in Callers \ {k} : pc'[j] = pc[j]
      BY <1>3, <3>1 DEF WindowInv, WN!TypeOK
    <3>. QED
      BY <1>3, <2>1, <2>2, <3>1, <3>2 DEF WindowInv, WN!TypeOK, WN!RequestsShow
  <2>3. CASE phase # "creating"
    <3>1. phase' = "creating" /\ pc' = [pc EXCEPT ![k] = "begun"]
      BY <1>3, <2>3 DEF WN!Begin, WN!Goes
    <3>2. pc'[k] = "begun" /\ \A j \in Callers \ {k} : pc'[j] = pc[j]
      BY <1>3, <3>1 DEF WindowInv, WN!TypeOK
    <3>. QED
      BY <1>3, <2>1, <3>1, <3>2 DEF WindowInv, WN!TypeOK, WN!RequestsShow
  <2>. QED
    BY <2>2, <2>3
<1>4. ASSUME WindowInv, NEW k \in Callers, WN!Schedule(k) PROVE WindowInv'
  <2>1. /\ UNCHANGED <<tray, window, visible>> /\ pc' = [pc EXCEPT ![k] = "idle"]
        /\ \/ jobs' = jobs + 1 /\ UNCHANGED <<phase, owed, hides>>
           \/ phase' = "absent" /\ owed' = FALSE /\ hides < MaxHides /\ hides' = hides + 1 /\ jobs' = jobs
    BY <1>4 DEF WN!Schedule, WN!Goes, WN!Waived
  <2>2. jobs' \in Nat /\ hides' \in 0 .. MaxHides
    BY <1>4, <2>1 DEF WindowInv, WN!TypeOK
  <2>3. WN!TypeOK'
    BY <1>4, <2>1, <2>2 DEF WindowInv, WN!TypeOK
  <2>4. pc'[k] = "idle" /\ pc[k] = "begun" /\ \A j \in Callers \ {k} : pc'[j] = pc[j]
    BY <1>4, <2>1 DEF WN!Schedule, WindowInv, WN!TypeOK
  <2>5. CASE jobs' = jobs + 1 /\ UNCHANGED <<phase, owed, hides>>
    <3>1. jobs' > 0
      BY <1>4, <2>5 DEF WindowInv, WN!TypeOK
    <3>. QED
      BY <1>4, <2>1, <2>3, <2>5, <3>1 DEF WindowInv, WN!RequestsShow
  <2>6. CASE phase' = "absent" /\ owed' = FALSE
    BY <2>3, <2>6 DEF WindowInv, WN!RequestsShow
  <2>. QED
    BY <2>1, <2>5, <2>6
<1>5. ASSUME WindowInv, WN!Create PROVE WindowInv'
  <2>1. /\ UNCHANGED <<tray, pc>> /\ jobs > 0 /\ jobs' = jobs - 1
        /\ \/ window' = TRUE /\ visible' = TRUE /\ phase' = "ready" /\ UNCHANGED <<owed, hides>>
           \/ /\ ~window /\ phase' = "absent" /\ owed' = FALSE /\ hides < MaxHides /\ hides' = hides + 1
              /\ UNCHANGED <<window, visible>>
           \/ window /\ phase' = "absent" /\ UNCHANGED <<window, visible, owed, hides>>
    BY <1>5 DEF WN!Create, WN!Waived
  <2>2. jobs' \in Nat /\ hides' \in 0 .. MaxHides
    BY <1>5, <2>1 DEF WindowInv, WN!TypeOK
  <2>3. WN!TypeOK'
    BY <1>5, <2>1, <2>2 DEF WindowInv, WN!TypeOK
  <2>4. owed' => window' /\ visible'
    <3>1. CASE window' = TRUE /\ visible' = TRUE
      BY <3>1
    <3>2. CASE owed' = FALSE
      BY <3>2
    <3>3. CASE window /\ window' = window /\ visible' = visible /\ owed' = owed
      BY <1>5, <3>3 DEF WindowInv
    <3>. QED
      BY <2>1, <3>1, <3>2, <3>3
  <2>. QED
    BY <2>1, <2>3, <2>4 DEF WindowInv, WN!RequestsShow
<1>6. ASSUME WindowInv, NEW k \in Callers, WN!Toggle(k) \/ WN!Hide(k) PROVE WindowInv'
  <2>1. PICK to \in {"idle", "hiding", "revealing"} : pc' = [pc EXCEPT ![k] = to]
    BY <1>6 DEF WN!Toggle, WN!Hide, WN!Goes
  <2>2. /\ window /\ UNCHANGED <<tray, window, phase, jobs>> /\ pc[k] \in {"idle", "hiding"}
        /\ \/ UNCHANGED <<visible, owed, hides>>
           \/ owed' = FALSE /\ visible' = FALSE /\ hides < MaxHides /\ hides' = hides + 1
    BY <1>6 DEF WN!Toggle, WN!Hide, WN!Waived
  <2>3. pc'[k] = to /\ \A j \in Callers \ {k} : pc'[j] = pc[j]
    BY <1>6, <2>1 DEF WindowInv, WN!TypeOK
  <2>4. hides' \in 0 .. MaxHides
    BY <1>6, <2>2 DEF WindowInv, WN!TypeOK
  <2>5. WN!TypeOK'
    BY <1>6, <2>1, <2>2, <2>4 DEF WindowInv, WN!TypeOK
  <2>6. owed' => visible'
    <3>1. CASE owed' = FALSE
      BY <3>1
    <3>2. CASE window /\ visible' = visible /\ owed' = owed
      BY <1>6, <3>2 DEF WindowInv
    <3>. QED
      BY <2>2, <3>1, <3>2
  <2>7. phase' = "creating" => jobs' > 0 \/ \E j \in Callers : pc'[j] = "begun"
    <3>1. \A j \in Callers : pc[j] = "begun" => pc'[j] = "begun"
      BY <2>2, <2>3
    <3>. QED
      BY <1>6, <2>2, <3>1 DEF WindowInv, WN!RequestsShow
  <2>. QED
    BY <2>5, <2>6, <2>7 DEF WindowInv, WN!RequestsShow
<1>7. WindowInv /\ UNCHANGED WN!vars => WindowInv'
  BY DEF WN!vars, WindowInv, WN!TypeOK, WN!RequestsShow
<1>8. WindowInv /\ [WN!Next]_(WN!vars) => WindowInv'
  BY <1>2, <1>3, <1>4, <1>5, <1>6, <1>7 DEF WN!Next
<1>9. WindowInv => WN!TypeOK /\ WN!RequestsShow
  BY DEF WindowInv
<1>. QED
  BY <1>1, <1>8, <1>9, PTL DEF WN!Spec

-----------------------------------------------------------------------------
(* Templates.                                                              *)

CONSTANTS Ids, Saves, Deletes, Lists, Terminals
VARIABLES files, index, apply, live, shown, cut, early

TP == INSTANCE Templates

TemplateReq == [pc : {"new", "file", "load", "rebuild", "save", "done"}, id : Ids, got : SUBSET Ids]

TemplateTypes ==
    /\ files \subseteq Ids /\ index \in [is : {"there", "lost", "corrupt"}, ids : SUBSET Ids]
    /\ req \in [TP!Requests -> TemplateReq] /\ overlap \in BOOLEAN /\ cut \subseteq Ids /\ early \in BOOLEAN
    /\ apply \in [pc : {"spawn", "failed", "done"}, spawned : SUBSET Terminals]
    /\ live \subseteq apply.spawned /\ shown \subseteq Terminals

\* What the index names, or is rebuilt as, lacks of the files only what fell to a failure, and what
\* the request r has still to enter; and so will the index that r writes.
IndexKept(r) ==
    /\ \A t \in files : \/ t \in TP!Known \cup cut
                        \/ r \in Saves /\ req[r].pc \in {"load", "rebuild", "save"} /\ t = req[r].id
    /\ req[r].pc \in {"rebuild", "save"} =>
         \A t \in files : t \in req[r].got \cup cut \/ (r \in Saves /\ t = req[r].id)
    /\ r \in Deletes /\ req[r].pc \in {"load", "rebuild", "save"} => req[r].id \notin files

IndexInv == ~overlap =>
    /\ \A r, q \in TP!Requests : TP!Busy(r) /\ TP!Busy(q) => r = q
    /\ (\A r \in TP!Requests : ~TP!Busy(r)) => files \subseteq TP!Known \cup cut
    /\ \A r \in TP!Requests : TP!Busy(r) => IndexKept(r)

ApplyInv ==
    /\ apply.pc = "failed" => live = {}
    /\ apply.pc = "spawn" /\ ~early => live = apply.spawned
    /\ apply.pc = "done" /\ ~early => shown = live

TemplateInv == TemplateTypes /\ IndexInv /\ ApplyInv

LEMMA TemplateInit ==
    ASSUME Ids # {}, TP!Init
    PROVE  TemplateInv
<1>. DEFINE n == CHOOSE i \in Ids : TRUE
<1>1. n \in Ids
  OBVIOUS
<1>2. /\ files \in SUBSET Ids /\ index = [is |-> "there", ids |-> files] /\ overlap = FALSE /\ cut = {}
      /\ req = [r \in TP!Requests |-> [pc |-> "new", id |-> n, got |-> {}]]
      /\ apply = [pc |-> "spawn", spawned |-> {}] /\ live = {} /\ shown = {} /\ early = FALSE
  BY DEF TP!Init, TP!Index
<1>. HIDE DEF n
<1>3. TemplateTypes
  BY <1>1, <1>2 DEF TemplateTypes, TemplateReq
<1>4. TP!Known = files /\ \A r \in TP!Requests : ~TP!Busy(r)
  BY <1>2 DEF TP!Known, TP!Busy
<1>5. IndexInv /\ ApplyInv
  BY <1>2, <1>4 DEF IndexInv, ApplyInv
<1>. QED
  BY <1>3, <1>5 DEF TemplateInv

LEMMA TemplateKnown ==
    ASSUME TemplateTypes
    PROVE  /\ index.is = "corrupt" => TP!Known = files
           /\ index.is = "lost" => TP!Known = {}
           /\ index.is = "there" => TP!Known = index.ids
           /\ TP!Known \subseteq Ids
  BY DEF TP!Known, TemplateTypes

\* A request begins.
LEMMA TemplateBegins ==
    ASSUME Saves \cap Deletes = {}, Lists \cap (Saves \cup Deletes) = {}, TemplateInv, NEW r \in TP!Requests,
           \/ r \in Saves /\ (TP!BeginCreate(r) \/ TP!BeginUpdate(r))
           \/ r \in Deletes /\ TP!RemoveFile(r)
           \/ r \in Lists /\ TP!BeginList(r)
    PROVE  TemplateInv'
<1>0. TemplateTypes /\ IndexInv /\ ApplyInv /\ TP!Requests' = TP!Requests /\ req[r] \in TemplateReq
  BY DEF TemplateInv, TemplateTypes, TP!Requests
<1>1. UNCHANGED <<index, cut, apply, live, shown, early>>
  BY DEF TP!BeginCreate, TP!BeginUpdate, TP!RemoveFile, TP!BeginList, TP!applyVars
<1>2. PICK x \in TemplateReq :
        /\ req' = [req EXCEPT ![r] = x]
        /\ \/ x.pc = "file" /\ r \in Saves /\ files' = files
           \/ x.pc = "load" /\ r \in Deletes /\ files' = files \ {x.id}
           \/ x.pc = "rebuild" /\ r \in Lists /\ x.got = files /\ files' = files
           \/ x.pc = "done" /\ files' = files
  <2>1. CASE r \in Saves /\ (TP!BeginCreate(r) \/ TP!BeginUpdate(r))
    <3>1. PICK i \in Ids : req' = [req EXCEPT ![r].pc = "file", ![r].id = i]
      BY <1>0, <2>1 DEF TP!BeginCreate, TP!BeginUpdate, TemplateTypes
    <3>2. files' = files
      BY <2>1 DEF TP!BeginCreate, TP!BeginUpdate
    <3>. DEFINE x == [req[r] EXCEPT !.pc = "file", !.id = i]
    <3>3. x \in TemplateReq /\ x.pc = "file" /\ req' = [req EXCEPT ![r] = x]
      BY <1>0, <3>1 DEF TemplateReq, TemplateTypes
    <3>. HIDE DEF x
    <3>. QED
      BY <2>1, <3>2, <3>3
  <2>2. ASSUME r \in Deletes, NEW i \in files, files' = files \ {i},
               req' = [req EXCEPT ![r].pc = "load", ![r].id = i]
        PROVE  \E x \in TemplateReq : /\ req' = [req EXCEPT ![r] = x] /\ x.pc = "load"
                                      /\ files' = files \ {x.id}
    <3>. DEFINE x == [req[r] EXCEPT !.pc = "load", !.id = i]
    <3>1. x \in TemplateReq /\ x.pc = "load" /\ x.id = i /\ req' = [req EXCEPT ![r] = x]
      BY <1>0, <2>2 DEF TemplateReq, TemplateTypes
    <3>. HIDE DEF x
    <3>. QED
      BY <2>2, <3>1
  <2>3. CASE r \in Deletes /\ req' = [req EXCEPT ![r].pc = "done"] /\ UNCHANGED files
    <3>. DEFINE x == [req[r] EXCEPT !.pc = "done"]
    <3>1. x \in TemplateReq /\ x.pc = "done" /\ req' = [req EXCEPT ![r] = x]
      BY <1>0, <2>3 DEF TemplateReq, TemplateTypes
    <3>. HIDE DEF x
    <3>. QED
      BY <2>3, <3>1
  <2>4. CASE r \in Lists /\ TP!BeginList(r)
    <3>. DEFINE x == [req[r] EXCEPT !.pc = "rebuild", !.got = files]
    <3>1. x \in TemplateReq /\ x.pc = "rebuild" /\ x.got = files
      BY <1>0 DEF TemplateReq, TemplateTypes
    <3>2. req' = [req EXCEPT ![r] = x] /\ files' = files
      BY <1>0, <2>4 DEF TP!BeginList, TemplateTypes
    <3>. HIDE DEF x
    <3>. QED
      BY <2>4, <3>1, <3>2
  <2>. QED
    BY <2>1, <2>2, <2>3, <2>4 DEF TP!RemoveFile
<1>3. overlap' = (overlap \/ \E s \in TP!Requests : TP!Busy(s)) /\ req[r].pc = "new"
  BY DEF TP!BeginCreate, TP!BeginUpdate, TP!RemoveFile, TP!BeginList, TP!Starts
<1>4. req'[r] = x /\ \A q \in TP!Requests \ {r} : req'[q] = req[q]
  BY <1>0, <1>2 DEF TemplateTypes
<1>5. TemplateTypes'
  BY <1>0, <1>1, <1>2, <1>3 DEF TemplateTypes, TemplateReq
<1>6. IndexInv'
  <2>. SUFFICES ASSUME ~overlap'
                PROVE  /\ \A p, q \in TP!Requests : TP!Busy(p)' /\ TP!Busy(q)' => p = q
                       /\ (\A q \in TP!Requests : ~TP!Busy(q)') => files' \subseteq TP!Known' \cup cut'
                       /\ \A q \in TP!Requests : TP!Busy(q)' => IndexKept(q)'
    BY <1>0 DEF IndexInv
  <2>1. ~overlap /\ \A q \in TP!Requests : ~TP!Busy(q)
    BY <1>3
  <2>2. \A q \in TP!Requests \ {r} : ~TP!Busy(q)'
    BY <1>4, <2>1 DEF TP!Busy
  <2>3. files \subseteq TP!Known \cup cut
    BY <1>0, <2>1 DEF IndexInv
  <2>4. files' \subseteq files /\ cut' = cut
    BY <1>1, <1>2
  <2>5. files' \subseteq TP!Known' \cup cut'
    <3>1. CASE index.is = "corrupt"
      BY <1>1, <3>1 DEF TP!Known
    <3>2. CASE index.is # "corrupt"
      BY <1>0, <1>1, <2>3, <2>4, <3>2 DEF TP!Known, TemplateTypes
    <3>. QED
      BY <3>1, <3>2
  <2>6. IndexKept(r)'
    BY <1>2, <1>4, <2>5 DEF IndexKept
  <2>. QED
    BY <2>2, <2>5, <2>6
<1>7. ApplyInv'
  BY <1>0, <1>1 DEF ApplyInv
<1>. QED
  BY <1>5, <1>6, <1>7 DEF TemplateInv

\* The request under way writes its file, reads the index, and replaces it; or that fails.
LEMMA TemplateGoesOn ==
    ASSUME Saves \cap Deletes = {}, Lists \cap (Saves \cup Deletes) = {}, TemplateInv, NEW r \in TP!Requests,
           (r \in Saves /\ TP!WriteFile(r)) \/ TP!ReadIndex(r) \/ TP!Rebuild(r) \/ TP!SaveIndex(r)
    PROVE  TemplateInv'
<1>0. TemplateTypes /\ IndexInv /\ ApplyInv /\ TP!Requests' = TP!Requests /\ req[r] \in TemplateReq
  BY DEF TemplateInv, TemplateTypes, TP!Requests
<1>1. UNCHANGED <<overlap, apply, live, shown, early>>
  BY DEF TP!WriteFile, TP!ReadIndex, TP!Rebuild, TP!SaveIndex, TP!applyVars
<1>. DEFINE Same == files' = files /\ index' = index /\ cut' = cut
            Wrote(ids) == files' = files /\ index' = [is |-> "there", ids |-> ids] /\ cut' = cut \ ids
            Way(x) ==
              \/ /\ req[r].pc = "file" /\ r \in Saves /\ x.pc = "load"
                 /\ files' = files \cup {x.id} /\ index' = index /\ cut' = cut
              \/ req[r].pc = "file" /\ x.pc = "done" /\ Same
              \/ req[r].pc = "load" /\ x.pc \in {"rebuild", "save"} /\ x.got = TP!Known /\ Same
              \/ /\ req[r].pc = "rebuild" /\ x.pc = (IF r \in Lists THEN "done" ELSE "save")
                 /\ x.got = req[r].got /\ (Same \/ Wrote(req[r].got))
              \/ /\ req[r].pc = "save" /\ x.pc = "done"
                 /\ \/ r \in Saves /\ Wrote(req[r].got \cup {req[r].id})
                    \/ r \in Deletes /\ Wrote(req[r].got \ {req[r].id})
                    \/ /\ files' = files /\ index' = index
                       /\ cut' = cut \cup ((IF r \in Saves THEN {req[r].id} ELSE {}) \ TP!Known)
<1>2. PICK x \in TemplateReq : req' = [req EXCEPT ![r] = x] /\ x.id = req[r].id /\ Way(x)
  <2>1. ASSUME NEW p \in {"load", "rebuild", "save", "done"}, req' = [req EXCEPT ![r].pc = p]
        PROVE  \E x \in TemplateReq : /\ req' = [req EXCEPT ![r] = x]
                                      /\ x.id = req[r].id /\ x.got = req[r].got /\ x.pc = p
    <3>. DEFINE x == [req[r] EXCEPT !.pc = p]
    <3>1. x \in TemplateReq /\ x.pc = p /\ x.id = req[r].id /\ x.got = req[r].got
      BY <1>0 DEF TemplateReq
    <3>2. req' = [req EXCEPT ![r] = x]
      BY <1>0, <2>1 DEF TemplateTypes
    <3>. HIDE DEF x
    <3>. QED
      BY <3>1, <3>2
  <2>2. CASE r \in Saves /\ TP!WriteFile(r)
    <3>1. req[r].pc = "file" /\ index' = index /\ cut' = cut
      BY <2>2 DEF TP!WriteFile
    <3>2. CASE files' = files \cup {req[r].id} /\ req' = [req EXCEPT ![r].pc = "load"]
      BY <2>1, <2>2, <3>1, <3>2
    <3>3. CASE req' = [req EXCEPT ![r].pc = "done"] /\ UNCHANGED files
      BY <2>1, <2>2, <3>1, <3>3
    <3>. QED
      BY <2>2, <3>2, <3>3 DEF TP!WriteFile
  <2>3. CASE TP!ReadIndex(r)
    <3>. DEFINE p == IF index.is = "corrupt" THEN "rebuild" ELSE "save"
                x == [req[r] EXCEPT !.pc = p, !.got = TP!Known]
    <3>1. req' = [req EXCEPT ![r].pc = p, ![r].got = TP!Known]
      BY <2>3 DEF TP!ReadIndex
    <3>2. req[r].pc = "load" /\ Same
      BY <2>3 DEF TP!ReadIndex
    <3>3. TP!Known \in SUBSET Ids /\ p \in {"rebuild", "save"}
      BY <1>0, TemplateKnown
    <3>. HIDE DEF p
    <3>4. x \in TemplateReq /\ x.pc = p /\ x.id = req[r].id /\ x.got = TP!Known
      BY <1>0, <3>3 DEF TemplateReq
    <3>5. req' = [req EXCEPT ![r] = x]
      BY <1>0, <3>1 DEF TemplateTypes
    <3>. HIDE DEF x
    <3>. QED
      BY <3>2, <3>3, <3>4, <3>5
  <2>4. CASE TP!Rebuild(r)
    <3>1. req[r].pc = "rebuild" /\ (Same \/ Wrote(req[r].got))
      BY <2>4 DEF TP!Rebuild, TP!Write, TP!Index
    <3>2. req' = [req EXCEPT ![r].pc = IF r \in Lists THEN "done" ELSE "save"]
      BY <2>4 DEF TP!Rebuild
    <3>. QED
      BY <2>1, <3>1, <3>2
  <2>5. CASE TP!SaveIndex(r)
    <3>1. /\ req[r].pc = "save"
          /\ \/ r \in Saves /\ Wrote(req[r].got \cup {req[r].id})
             \/ r \in Deletes /\ Wrote(req[r].got \ {req[r].id})
             \/ /\ files' = files /\ index' = index
                /\ cut' = cut \cup ((IF r \in Saves THEN {req[r].id} ELSE {}) \ TP!Known)
      BY <2>5 DEF TP!SaveIndex, TP!Write, TP!Index, TP!Own
    <3>2. req' = [req EXCEPT ![r].pc = "done"]
      BY <2>5 DEF TP!SaveIndex
    <3>. QED
      BY <2>1, <3>1, <3>2
  <2>. QED
    BY <2>2, <2>3, <2>4, <2>5
<1>3. req'[r] = x /\ \A q \in TP!Requests \ {r} : req'[q] = req[q]
  BY <1>0, <1>2 DEF TemplateTypes
<1>4. TemplateTypes'
  <2>1. /\ req[r].got \subseteq Ids /\ req[r].id \in Ids /\ x.id \in Ids
        /\ files \subseteq Ids /\ cut \subseteq Ids
    BY <1>0 DEF TemplateReq, TemplateTypes
  <2>2. files' \subseteq Ids /\ cut' \subseteq Ids
    BY <1>2, <2>1
  <2>3. index' \in [is : {"there", "lost", "corrupt"}, ids : SUBSET Ids]
    <3>1. CASE index' = index
      BY <1>0, <3>1 DEF TemplateTypes
    <3>2. ASSUME NEW ids \in SUBSET Ids, index' = [is |-> "there", ids |-> ids]
          PROVE  index' \in [is : {"there", "lost", "corrupt"}, ids : SUBSET Ids]
      BY <3>2
    <3>. QED
      BY <1>2, <2>1, <3>1, <3>2
  <2>4. req' \in [TP!Requests -> TemplateReq]
    BY <1>0, <1>2 DEF TemplateTypes
  <2>. QED
    BY <1>0, <1>1, <2>2, <2>3, <2>4 DEF TemplateTypes
<1>5. IndexInv'
  <2>. SUFFICES ASSUME ~overlap'
                PROVE  /\ \A p, q \in TP!Requests : TP!Busy(p)' /\ TP!Busy(q)' => p = q
                       /\ (\A q \in TP!Requests : ~TP!Busy(q)') => files' \subseteq TP!Known' \cup cut'
                       /\ \A q \in TP!Requests : TP!Busy(q)' => IndexKept(q)'
    BY <1>0 DEF IndexInv
  <2>1. ~overlap /\ TP!Busy(r)
    BY <1>1, <1>2 DEF TP!Busy
  <2>2. IndexKept(r) /\ \A q \in TP!Requests \ {r} : ~TP!Busy(q)
    BY <1>0, <2>1 DEF IndexInv
  <2>3. \A q \in TP!Requests \ {r} : ~TP!Busy(q)'
    BY <1>3, <2>2 DEF TP!Busy
  <2>0. x.pc # "new"
    BY <1>2
  <2>4. SUFFICES IF x.pc = "done" THEN files' \subseteq TP!Known' \cup cut' ELSE IndexKept(r)'
    BY <1>3, <2>3, <2>0 DEF TP!Busy
  <2>5. /\ index' = index => \A t \in files : t \in TP!Known => t \in TP!Known'
        /\ index'.is = "there" => TP!Known' = index'.ids
    <3>1. CASE index' = index
      <4>1. files \subseteq files'
        BY <1>2
      <4>. QED
        BY <3>1, <4>1, <1>0 DEF TP!Known, TemplateTypes
    <3>2. CASE index'.is = "there"
      BY <3>2, <1>2 DEF TP!Known
    <3>. QED
      BY <3>1, <3>2, <1>2 DEF TP!Known
  <2>. HIDE DEF Way
  <2>6. CASE req[r].pc = "file"
    BY <1>2, <1>3, <2>2, <2>5, <2>6 DEF Way, IndexKept
  <2>7. CASE req[r].pc = "load"
    BY <1>2, <1>3, <2>2, <2>5, <2>7 DEF Way, IndexKept
  <2>8. CASE req[r].pc = "rebuild"
    BY <1>2, <1>3, <2>2, <2>5, <2>8 DEF Way, IndexKept
  <2>9. CASE req[r].pc = "save"
    BY <1>2, <1>3, <2>2, <2>5, <2>9 DEF Way, IndexKept
  <2>. QED
    BY <1>2, <2>6, <2>7, <2>8, <2>9 DEF Way
<1>6. ApplyInv'
  BY <1>0, <1>1 DEF ApplyInv
<1>. QED
  BY <1>4, <1>5, <1>6 DEF TemplateInv

\* The server starts again, or the index is damaged.
LEMMA TemplateDamage ==
    ASSUME TemplateInv, TP!Restart \/ TP!Damage
    PROVE  TemplateInv'
<1>0. TemplateTypes /\ IndexInv /\ ApplyInv /\ TP!Requests' = TP!Requests
  BY DEF TemplateInv, TP!Requests
<1>1. UNCHANGED <<files, overlap, apply, live, shown, early>>
  BY DEF TP!Restart, TP!Damage, TP!applyVars
<1>2. ApplyInv'
  BY <1>0, <1>1 DEF ApplyInv
<1>3. CASE TP!Restart
  <2>. DEFINE Late == {s \in Saves : req[s].pc \in {"load", "rebuild", "save"}}
  <2>1. /\ index' = index /\ cut' = cut \cup ({req[r].id : r \in Late} \ TP!Known)
        /\ req' = [r \in TP!Requests |-> IF TP!Busy(r) THEN [req[r] EXCEPT !.pc = "done"] ELSE req[r]]
    BY <1>3 DEF TP!Restart
  <2>2. \A r \in TP!Requests : req'[r] \in TemplateReq /\ req'[r].pc \in {"new", "done"}
    <3>1. TAKE r \in TP!Requests
    <3>2. req[r] \in TemplateReq
      BY <1>0 DEF TemplateTypes
    <3>3. CASE TP!Busy(r)
      BY <2>1, <3>2, <3>3 DEF TemplateReq
    <3>4. CASE ~TP!Busy(r)
      BY <2>1, <3>2, <3>4 DEF TP!Busy
    <3>. QED
      BY <3>3, <3>4
  <2>3. TemplateTypes'
    <3>1. req' \in [TP!Requests -> TemplateReq]
      BY <2>1, <2>2
    <3>2. \A r \in Late : req[r].id \in Ids
      BY <1>0 DEF TemplateTypes, TemplateReq, TP!Requests
    <3>3. cut' \subseteq Ids
      BY <1>0, <2>1, <3>2 DEF TemplateTypes
    <3>. QED
      BY <1>0, <1>1, <2>1, <3>1, <3>3 DEF TemplateTypes
  <2>4. \A r \in TP!Requests : ~TP!Busy(r)'
    BY <2>2 DEF TP!Busy
  <2>5. ASSUME ~overlap' PROVE files \subseteq TP!Known \cup cut'
    <3>1. CASE \A r \in TP!Requests : ~TP!Busy(r)
      BY <1>0, <1>1, <2>1, <2>5, <3>1 DEF IndexInv
    <3>2. ASSUME NEW r \in TP!Requests, TP!Busy(r) PROVE files \subseteq TP!Known \cup cut'
      <4>1. IndexKept(r)
        BY <1>0, <1>1, <2>5, <3>2 DEF IndexInv
      <4>. QED
        BY <2>1, <4>1 DEF IndexKept
    <3>. QED
      BY <3>1, <3>2
  <2>6. TP!Known' = TP!Known
    BY <1>1, <2>1 DEF TP!Known
  <2>7. IndexInv'
    BY <1>0, <1>1, <2>4, <2>5, <2>6 DEF IndexInv
  <2>. QED
    BY <1>2, <2>3, <2>7 DEF TemplateInv
<1>4. CASE TP!Damage
  <2>1. /\ index.is = "there" /\ req' = req
        /\ \/ index' = [is |-> "lost", ids |-> {}] /\ cut' = cut \cup files
           \/ index' = [is |-> "corrupt", ids |-> {}] /\ cut' = cut
    BY <1>4 DEF TP!Damage
  <2>2. TemplateTypes'
    BY <1>0, <1>1, <2>1 DEF TemplateTypes
  <2>3. \A r \in TP!Requests : TP!Busy(r)' <=> TP!Busy(r)
    BY <2>1 DEF TP!Busy
  <2>4. files' \subseteq TP!Known' \cup cut' /\ cut \subseteq cut'
    BY <1>1, <2>1 DEF TP!Known
  <2>5. \A r \in TP!Requests : IndexKept(r) => IndexKept(r)'
    BY <1>1, <2>1, <2>4 DEF IndexKept
  <2>6. IndexInv'
    BY <1>0, <1>1, <2>3, <2>4, <2>5 DEF IndexInv
  <2>. QED
    BY <1>2, <2>2, <2>6 DEF TemplateInv
<1>. QED
  BY <1>3, <1>4

\* A template is applied, and shells end.
LEMMA TemplateApplies ==
    ASSUME TemplateInv,
           TP!Spawn \/ TP!GiveUp \/ TP!InsertTab \/ \E t \in Terminals : TP!ShellEnds(t)
    PROVE  TemplateInv'
<1>0. TemplateTypes /\ IndexInv /\ ApplyInv /\ TP!Requests' = TP!Requests
  BY DEF TemplateInv, TP!Requests
<1>1. UNCHANGED <<files, index, req, overlap, cut>>
  BY DEF TP!Spawn, TP!GiveUp, TP!InsertTab, TP!ShellEnds, TP!storeVars
<1>2. IndexInv'
  BY <1>0, <1>1 DEF IndexInv, IndexKept, TP!Known, TP!Busy
<1>3. CASE TP!Spawn
  <2>1. PICK t \in Terminals : /\ apply' = [apply EXCEPT !.spawned = @ \cup {t}]
                               /\ live' = live \cup {t}
    BY <1>3 DEF TP!Spawn
  <2>2. apply.pc = "spawn" /\ shown' = shown /\ early' = early
    BY <1>3 DEF TP!Spawn
  <2>3. apply' \in [pc : {"spawn", "failed", "done"}, spawned : SUBSET Terminals]
        /\ apply'.pc = "spawn" /\ apply'.spawned = apply.spawned \cup {t}
    BY <1>0, <2>1, <2>2 DEF TemplateTypes
  <2>4. TemplateTypes'
    BY <1>0, <1>1, <2>1, <2>2, <2>3 DEF TemplateTypes
  <2>5. ApplyInv'
    BY <1>0, <2>1, <2>2, <2>3 DEF ApplyInv
  <2>. QED
    BY <1>0, <1>2, <2>4, <2>5 DEF TemplateInv
<1>4. CASE TP!GiveUp
  <2>1. apply' = [apply EXCEPT !.pc = "failed"] /\ live' = live \ apply.spawned /\ shown' = shown /\ early' = early
    BY <1>4 DEF TP!GiveUp
  <2>2. apply' \in [pc : {"spawn", "failed", "done"}, spawned : SUBSET Terminals]
        /\ apply'.pc = "failed" /\ apply'.spawned = apply.spawned
    BY <1>0, <2>1 DEF TemplateTypes
  <2>3. TemplateTypes'
    BY <1>0, <1>1, <2>1, <2>2 DEF TemplateTypes
  <2>4. ApplyInv'
    BY <1>0, <2>1, <2>2 DEF ApplyInv, TemplateTypes
  <2>. QED
    BY <1>0, <1>2, <2>3, <2>4 DEF TemplateInv
<1>5. CASE TP!InsertTab
  <2>1. /\ apply.pc = "spawn" /\ apply.spawned = Terminals /\ apply' = [apply EXCEPT !.pc = "done"]
        /\ shown' = Terminals /\ live' = live /\ early' = early
    BY <1>5 DEF TP!InsertTab
  <2>2. apply' \in [pc : {"spawn", "failed", "done"}, spawned : SUBSET Terminals]
        /\ apply'.pc = "done" /\ apply'.spawned = apply.spawned
    BY <1>0, <2>1 DEF TemplateTypes
  <2>3. TemplateTypes'
    BY <1>0, <1>1, <2>1, <2>2 DEF TemplateTypes
  <2>4. ApplyInv'
    BY <1>0, <2>1, <2>2 DEF ApplyInv
  <2>. QED
    BY <1>0, <1>2, <2>3, <2>4 DEF TemplateInv
<1>6. ASSUME NEW t \in Terminals, TP!ShellEnds(t) PROVE TemplateInv'
  <2>1. /\ live' = live \ {t} /\ shown' = shown \ {t} /\ apply' = apply
        /\ early' = (early \/ apply.pc = "spawn")
    BY <1>6 DEF TP!ShellEnds
  <2>2. TemplateTypes'
    BY <1>0, <1>1, <2>1 DEF TemplateTypes
  <2>3. ApplyInv'
    <3>1. CASE apply.pc = "spawn"
      BY <2>1, <3>1 DEF ApplyInv
    <3>2. CASE apply.pc # "spawn"
      BY <1>0, <2>1, <3>2 DEF ApplyInv
    <3>. QED
      BY <3>1, <3>2
  <2>. QED
    BY <1>0, <1>2, <2>2, <2>3 DEF TemplateInv
<1>. QED
  BY <1>3, <1>4, <1>5, <1>6

\* Between requests that do not overlap the list shows every template whose file is there, except
\* those whose own save failed or was cut short after the file was written, or that an index named
\* that was lost; and applying is all or nothing: whatever the requests, in whatever order their
\* steps, their failures and the damage come.  (handlers.rs, store.rs, apply.rs)
THEOREM TemplatesAreListed ==
    ASSUME Ids # {}, Saves \cap Deletes = {}, Lists \cap (Saves \cup Deletes) = {}
    PROVE  TP!Spec => [](TP!TypeOK /\ TP!AllListed /\ TP!AppliedWhole)
<1>1. TP!Init => TemplateInv
  BY TemplateInit
<1>2. TemplateInv /\ [TP!Next]_TP!vars => TemplateInv'
  <2>. SUFFICES ASSUME TemplateInv, [TP!Next]_TP!vars PROVE TemplateInv'
    OBVIOUS
  <2>0. TP!Requests = Saves \cup Deletes \cup Lists
    BY DEF TP!Requests
  <2>1. ASSUME NEW r \in TP!Requests,
               \/ r \in Saves /\ (TP!BeginCreate(r) \/ TP!BeginUpdate(r))
               \/ r \in Deletes /\ TP!RemoveFile(r)
               \/ r \in Lists /\ TP!BeginList(r)
        PROVE  TemplateInv'
    BY <2>1, TemplateBegins
  <2>2. ASSUME NEW r \in TP!Requests,
               (r \in Saves /\ TP!WriteFile(r)) \/ TP!ReadIndex(r) \/ TP!Rebuild(r) \/ TP!SaveIndex(r)
        PROVE  TemplateInv'
    BY <2>2, TemplateGoesOn
  <2>3. CASE TP!Restart \/ TP!Damage
    BY <2>3, TemplateDamage
  <2>4. CASE TP!Spawn \/ TP!GiveUp \/ TP!InsertTab \/ \E t \in Terminals : TP!ShellEnds(t)
    BY <2>4, TemplateApplies
  <2>5. CASE UNCHANGED TP!vars
    <3>1. UNCHANGED <<files, index, req, overlap, cut, apply, live, shown, early>>
      BY <2>5 DEF TP!vars, TP!storeVars, TP!applyVars
    <3>2. TP!Requests' = TP!Requests /\ TP!Known' = TP!Known /\ \A r \in TP!Requests : TP!Busy(r)' <=> TP!Busy(r)
      BY <3>1 DEF TP!Requests, TP!Known, TP!Busy
    <3>3. \A r \in TP!Requests : IndexKept(r)' <=> IndexKept(r)
      BY <3>1, <3>2 DEF IndexKept
    <3>. QED
      BY <3>1, <3>2, <3>3 DEF TemplateInv, TemplateTypes, IndexInv, ApplyInv
  <2>. QED
    BY <2>0, <2>1, <2>2, <2>3, <2>4, <2>5 DEF TP!Next
<1>3. TemplateInv => TP!TypeOK /\ TP!AllListed /\ TP!AppliedWhole
  <2>. SUFFICES ASSUME TemplateInv PROVE TP!TypeOK /\ TP!AllListed /\ TP!AppliedWhole
    OBVIOUS
  <2>1. TemplateTypes /\ IndexInv /\ ApplyInv
    BY DEF TemplateInv
  <2>2. TP!TypeOK
    BY <2>1 DEF TP!TypeOK, TemplateTypes, TemplateReq
  <2>3. TP!AllListed
    BY <2>1 DEF TP!AllListed, TP!Listed, IndexInv
  <2>4. TP!AppliedWhole
    BY <2>1 DEF TP!AppliedWhole, ApplyInv
  <2>. QED
    BY <2>2, <2>3, <2>4
<1>. QED
  BY <1>1, <1>2, <1>3, PTL DEF TP!Spec

-----------------------------------------------------------------------------
(* The check for updates.                                                  *)

CONSTANTS Checks, Bundles, TTL, Backoff, MaxBackoff, MaxTime, MaxVersion
VARIABLES now, feed, ended, cache, holder, check

UC == INSTANCE UpdateCheck WITH Kinds <- Bundles

UpdateAssumption ==
    /\ UC!TimesAssumption /\ MaxVersion \in Nat \ {0}
    /\ None \notin Nat \cup Checks \cup UC!Releases

Cached == [release : UC!Releases \cup {None}, etag : UC!Releases \cup {None}, at : Nat \cup {None}, until : Nat]
AnyCheck == [pc : {"idle", "lock", "sent"}, forced : BOOLEAN, at : Nat, etag : UC!Releases \cup {None},
             answer : UC!Releases \cup {None}]

UpdateTypes ==
    /\ now \in 0 .. MaxTime /\ feed \in UC!Releases /\ ended \in [UC!Releases -> Nat]
    /\ cache \in Cached /\ holder \in Checks \cup {None} /\ check \in [Checks -> AnyCheck]

\* A release that is not yet replaced, as the one the feed has.
Ahead(x) == \/ x.version > feed.version
            \/ x.version = feed.version /\ feed.uploaded \subseteq x.uploaded

FeedInv == \A x \in UC!Releases : Ahead(x) => ended[x] = UC!Later

\* The feed had what is cached when the check that cached it was made, or later.
CacheInv ==
    /\ cache.etag # None => cache.etag = cache.release
    /\ cache.release # None => cache.at # None
    /\ cache.at # None => cache.release # None /\ cache.at <= now /\ ended[cache.release] >= cache.at

\* Only the check that holds the lock asks the feed, with the ETag that is cached.
LockInv ==
    /\ holder # None => check[holder].pc = "sent"
    /\ \A c \in Checks : check[c].pc = "sent" => holder = c /\ check[c].etag = cache.etag

AnswerInv(c) ==
    /\ check[c].at <= now
    /\ check[c].answer # None =>
         \/ ended[check[c].answer] >= check[c].at
         \/ ~check[c].forced /\ ended[check[c].answer] > check[c].at - TTL

UpdateInv == UpdateTypes /\ FeedInv /\ CacheInv /\ LockInv /\ \A c \in Checks : AnswerInv(c)

LEMMA UpdateInit ==
    ASSUME UpdateAssumption, UC!Init
    PROVE  UpdateInv
<1>1. /\ now = 0 /\ feed = [version |-> 1, uploaded |-> {}] /\ ended = [x \in UC!Releases |-> UC!Later]
      /\ cache = [release |-> None, etag |-> None, at |-> None, until |-> 0] /\ holder = None
      /\ check = [c \in Checks |-> [pc |-> "idle", forced |-> FALSE, at |-> 0, etag |-> None, answer |-> None]]
  BY DEF UC!Init
<1>2. feed \in UC!Releases /\ UC!Later \in Nat /\ now \in 0 .. MaxTime
  BY <1>1 DEF UC!Releases, UC!Later, UpdateAssumption, UC!TimesAssumption
<1>3. cache \in Cached
  BY <1>1 DEF Cached
<1>4. \A c \in Checks : check[c] \in AnyCheck /\ check[c].pc = "idle" /\ check[c].at = 0 /\ check[c].answer = None
  BY <1>1 DEF AnyCheck
<1>5. check \in [Checks -> AnyCheck]
  BY <1>1, <1>4
<1>6. UpdateTypes
  BY <1>1, <1>2, <1>3, <1>5 DEF UpdateTypes
<1>7. FeedInv /\ CacheInv /\ LockInv
  BY <1>1, <1>4 DEF FeedInv, CacheInv, LockInv
<1>8. \A c \in Checks : AnswerInv(c)
  BY <1>1, <1>4 DEF AnswerInv
<1>. QED
  BY <1>6, <1>7, <1>8 DEF UpdateInv

\* Time passes, or the feed goes on.
LEMMA UpdateElsewhere ==
    ASSUME UpdateAssumption, UpdateInv, UC!Tick \/ UC!Publish
    PROVE  UpdateInv'
<1>0. /\ UpdateTypes /\ FeedInv /\ CacheInv /\ LockInv /\ \A c \in Checks : AnswerInv(c)
      /\ now \in Nat /\ MaxTime \in Nat /\ TTL \in Nat /\ cache \in Cached
      /\ \A c \in Checks : check[c] \in AnyCheck
  BY DEF UpdateInv, UpdateTypes, UpdateAssumption, UC!TimesAssumption
<1>1. UNCHANGED <<cache, holder, check>>
  BY DEF UC!Tick, UC!Publish
<1>2. LockInv'
  BY <1>0, <1>1 DEF LockInv
<1>3. CASE UC!Tick
  <2>1. now' = now + 1 /\ now < MaxTime /\ feed' = feed /\ ended' = ended
    BY <1>3 DEF UC!Tick
  <2>2. UpdateTypes'
    BY <1>0, <1>1, <2>1 DEF UpdateTypes
  <2>3. FeedInv'
    BY <1>0, <2>1 DEF FeedInv, Ahead
  <2>4. CacheInv'
    BY <1>0, <1>1, <2>1 DEF CacheInv, Cached
  <2>5. \A c \in Checks : AnswerInv(c)'
    BY <1>0, <1>1, <2>1 DEF AnswerInv, AnyCheck
  <2>. QED
    BY <1>2, <2>2, <2>3, <2>4, <2>5 DEF UpdateInv
<1>4. CASE UC!Publish
  <2>1. now' = now /\ ended' = [ended EXCEPT ![feed] = now]
    BY <1>4 DEF UC!Publish
  <2>2. /\ feed' \in UC!Releases
        /\ \/ feed'.version > feed.version
           \/ feed'.version = feed.version /\ feed.uploaded \subseteq feed'.uploaded /\ feed'.uploaded # feed.uploaded
    <3>1. feed.version \in Nat /\ MaxVersion \in Nat
      BY <1>0 DEF UpdateTypes, UC!Releases, UpdateAssumption
    <3>2. CASE feed.version < MaxVersion /\ feed' = [version |-> feed.version + 1, uploaded |-> {}]
      BY <3>1, <3>2 DEF UC!Releases
    <3>3. ASSUME NEW k \in Bundles \ feed.uploaded, feed' = [feed EXCEPT !.uploaded = @ \cup {k}]
          PROVE  feed' \in UC!Releases /\ feed'.version = feed.version /\ feed'.uploaded = feed.uploaded \cup {k}
      BY <1>0, <3>3 DEF UpdateTypes, UC!Releases
    <3>. QED
      BY <1>4, <3>2, <3>3 DEF UC!Publish
  <2>3. \A x \in UC!Releases : ended'[x] = IF x = feed THEN now ELSE ended[x]
    BY <1>0, <2>1 DEF UpdateTypes
  <2>4. UpdateTypes'
    <3>1. ended' \in [UC!Releases -> Nat]
      BY <1>0, <2>1 DEF UpdateTypes
    <3>. QED
      BY <1>0, <1>1, <2>1, <2>2, <3>1 DEF UpdateTypes
  <2>5. FeedInv'
    <3>. SUFFICES ASSUME NEW x \in UC!Releases, Ahead(x)' PROVE ended'[x] = UC!Later
      BY DEF FeedInv, UC!Releases, UC!Later
    <3>1. /\ x.version \in Nat /\ feed.version \in Nat /\ feed'.version \in Nat
          /\ \/ x.version > feed'.version
             \/ x.version = feed'.version /\ feed'.uploaded \subseteq x.uploaded
      BY <1>0, <2>2 DEF Ahead, UpdateTypes, UC!Releases
    <3>2. Ahead(x) /\ x # feed
      BY <2>2, <3>1 DEF Ahead
    <3>. QED
      BY <1>0, <2>3, <3>2 DEF FeedInv
  <2>6. CacheInv'
    <3>. SUFFICES ASSUME cache.at # None PROVE ended'[cache.release] >= cache.at
      BY <1>0, <1>1, <2>1 DEF CacheInv
    <3>1. cache.release \in UC!Releases /\ cache.at <= now /\ ended[cache.release] >= cache.at
      BY <1>0 DEF CacheInv, Cached
    <3>. QED
      BY <1>0, <2>3, <3>1 DEF Cached
  <2>7. \A c \in Checks : AnswerInv(c)'
    <3>. SUFFICES ASSUME NEW c \in Checks, check[c].answer # None
                  PROVE  \/ ended'[check[c].answer] >= check[c].at
                         \/ ~check[c].forced /\ ended'[check[c].answer] > check[c].at - TTL
      BY <1>0, <1>1, <2>1 DEF AnswerInv
    <3>1. check[c].answer \in UC!Releases /\ check[c].at \in Nat /\ check[c].at <= now
      BY <1>0 DEF AnswerInv, AnyCheck
    <3>2. CASE check[c].answer = feed
      BY <1>0, <2>3, <3>1, <3>2
    <3>3. CASE check[c].answer # feed
      BY <1>0, <2>3, <3>1, <3>3 DEF AnswerInv
    <3>. QED
      BY <3>2, <3>3
  <2>. QED
    BY <1>2, <2>4, <2>5, <2>6, <2>7 DEF UpdateInv
<1>. QED
  BY <1>3, <1>4

\* What a step of one check leaves to show: the feed and the time stay.
LEMMA UpdateStep ==
    ASSUME UpdateInv, NEW c \in Checks, NEW x \in AnyCheck,
           check' = [check EXCEPT ![c] = x], UNCHANGED <<now, feed, ended>>,
           cache' \in Cached, holder' \in Checks \cup {None}, CacheInv', LockInv', AnswerInv(c)'
    PROVE  UpdateInv'
<1>1. UpdateTypes /\ FeedInv /\ \A d \in Checks : AnswerInv(d)
  BY DEF UpdateInv
<1>2. UpdateTypes'
  BY <1>1 DEF UpdateTypes
<1>3. FeedInv'
  BY <1>1 DEF FeedInv, Ahead
<1>4. \A d \in Checks : AnswerInv(d)'
  <2>1. \A d \in Checks \ {c} : check'[d] = check[d]
    BY <1>1 DEF UpdateTypes
  <2>. QED
    BY <1>1, <2>1 DEF AnswerInv
<1>. QED
  BY <1>2, <1>3, <1>4 DEF UpdateInv

\* A check is asked for, is answered from the cache or not at all, sends its request, or
\* is dropped.
LEMMA UpdateWaits ==
    ASSUME UpdateAssumption, UpdateInv, NEW c \in Checks,
           UC!Ask(c) \/ UC!FromCache(c) \/ UC!BackingOff(c) \/ UC!Send(c) \/ UC!Drop(c)
    PROVE  UpdateInv'
<1>0. /\ UpdateTypes /\ FeedInv /\ CacheInv /\ LockInv /\ \A d \in Checks : AnswerInv(d)
      /\ now \in Nat /\ TTL \in Nat /\ cache \in Cached /\ check[c] \in AnyCheck
      /\ None \notin Checks \cup UC!Releases /\ holder \in Checks \cup {None}
      /\ ended \in [UC!Releases -> Nat]
  BY DEF UpdateInv, UpdateTypes, UpdateAssumption, UC!TimesAssumption
<1>1. UNCHANGED <<now, feed, ended, cache>>
  BY DEF UC!Ask, UC!FromCache, UC!BackingOff, UC!Send, UC!Drop
<1>2. CacheInv' /\ cache' \in Cached
  BY <1>0, <1>1 DEF CacheInv
<1>3. CASE UC!Ask(c)
  <2>1. PICK f \in BOOLEAN :
          check' = [check EXCEPT ![c] = [@ EXCEPT !.pc = "lock", !.forced = f, !.at = now, !.answer = None]]
    BY <1>3 DEF UC!Ask
  <2>2. holder' = holder /\ check[c].pc = "idle"
    BY <1>3 DEF UC!Ask
  <2>. DEFINE x == [check[c] EXCEPT !.pc = "lock", !.forced = f, !.at = now, !.answer = None]
  <2>3. /\ x \in AnyCheck /\ x.pc = "lock" /\ x.at = now /\ x.answer = None
        /\ check' = [check EXCEPT ![c] = x]
    BY <1>0, <2>1 DEF AnyCheck, UpdateTypes
  <2>. HIDE DEF x
  <2>4. check'[c] = x /\ \A d \in Checks \ {c} : check'[d] = check[d]
    BY <1>0, <2>3 DEF UpdateTypes
  <2>5. LockInv'
    BY <1>0, <1>1, <2>2, <2>3, <2>4 DEF LockInv
  <2>6. AnswerInv(c)'
    BY <1>0, <1>1, <2>3, <2>4 DEF AnswerInv
  <2>7. holder' \in Checks \cup {None}
    BY <1>0, <2>2
  <2>. QED
    BY <1>1, <1>2, <2>3, <2>5, <2>6, <2>7, UpdateStep
<1>4. ASSUME NEW a, UC!Answers(c, a), check[c].pc = "lock", holder' = holder,
             \/ a = None
             \/ a = cache.release /\ UC!Usable(c)
      PROVE  UpdateInv'
  <2>. DEFINE x == [check[c] EXCEPT !.pc = "idle", !.etag = None, !.answer = a]
  <2>1. a \in UC!Releases \cup {None}
    BY <1>0, <1>4 DEF Cached
  <2>2. /\ x \in AnyCheck /\ x.pc = "idle" /\ x.answer = a /\ x.at = check[c].at /\ x.forced = check[c].forced
    BY <1>0, <2>1 DEF AnyCheck
  <2>3. check' = [check EXCEPT ![c] = x]
    BY <1>0, <1>4 DEF UC!Answers, UpdateTypes
  <2>. HIDE DEF x
  <2>4. check'[c] = x /\ \A d \in Checks \ {c} : check'[d] = check[d]
    BY <1>0, <2>2, <2>3 DEF UpdateTypes
  <2>5. LockInv'
    BY <1>0, <1>1, <1>4, <2>2, <2>4 DEF LockInv
  <2>6. AnswerInv(c)'
    <3>1. check[c].at \in Nat /\ check[c].at <= now
      BY <1>0 DEF AnyCheck, AnswerInv
    <3>2. CASE a = None
      BY <1>1, <2>2, <2>4, <3>1, <3>2 DEF AnswerInv
    <3>3. CASE a # None /\ a = cache.release /\ UC!Usable(c)
      <4>1. /\ ~check[c].forced /\ cache.at \in Nat /\ check[c].at - cache.at < TTL
            /\ cache.release \in UC!Releases /\ ended[cache.release] \in Nat /\ ended[cache.release] >= cache.at
        BY <1>0, <3>3 DEF UC!Usable, CacheInv, Cached
      <4>2. ended[a] > check[c].at - TTL
        BY <1>0, <3>1, <3>3, <4>1
      <4>. QED
        BY <1>1, <2>2, <2>4, <3>1, <4>1, <4>2 DEF AnswerInv
    <3>. QED
      BY <1>4, <3>2, <3>3
  <2>7. holder' \in Checks \cup {None}
    BY <1>0, <1>4
  <2>. QED
    BY <1>1, <1>2, <2>2, <2>3, <2>5, <2>6, <2>7, UpdateStep
<1>5. CASE UC!FromCache(c)
  <2>1. UC!Answers(c, cache.release) /\ check[c].pc = "lock" /\ holder' = holder /\ UC!Usable(c)
    BY <1>5 DEF UC!FromCache
  <2>. QED
    BY <1>4, <2>1
<1>6. CASE UC!BackingOff(c)
  <2>1. UC!Answers(c, None) /\ check[c].pc = "lock" /\ holder' = holder
    BY <1>6 DEF UC!BackingOff
  <2>. QED
    BY <1>4, <2>1
<1>7. CASE UC!Send(c)
  <2>. DEFINE x == [check[c] EXCEPT !.pc = "sent", !.etag = cache.etag]
  <2>1. /\ x \in AnyCheck /\ x.pc = "sent" /\ x.etag = cache.etag
        /\ x.answer = check[c].answer /\ x.at = check[c].at /\ x.forced = check[c].forced
    BY <1>0 DEF AnyCheck, Cached
  <2>2. check' = [check EXCEPT ![c] = x] /\ holder = None /\ holder' = c
    BY <1>0, <1>7 DEF UC!Send, UpdateTypes
  <2>. HIDE DEF x
  <2>3. check'[c] = x /\ \A d \in Checks \ {c} : check'[d] = check[d]
    BY <1>0, <2>2 DEF UpdateTypes
  <2>4. \A d \in Checks : check[d].pc # "sent"
    BY <1>0, <2>2 DEF LockInv
  <2>5. LockInv'
    BY <1>0, <1>1, <2>1, <2>2, <2>3, <2>4 DEF LockInv
  <2>6. AnswerInv(c)'
    BY <1>0, <1>1, <2>1, <2>3 DEF AnswerInv
  <2>7. holder' \in Checks \cup {None}
    BY <2>2
  <2>. QED
    BY <1>1, <1>2, <2>1, <2>2, <2>5, <2>6, <2>7, UpdateStep
<1>8. CASE UC!Drop(c)
  <2>. DEFINE x == [check[c] EXCEPT !.pc = "idle", !.etag = None]
  <2>1. /\ x \in AnyCheck /\ x.pc = "idle"
        /\ x.answer = check[c].answer /\ x.at = check[c].at /\ x.forced = check[c].forced
    BY <1>0 DEF AnyCheck
  <2>2. check' = [check EXCEPT ![c] = x] /\ holder' = IF holder = c THEN None ELSE holder
    BY <1>0, <1>8 DEF UC!Drop, UpdateTypes
  <2>. HIDE DEF x
  <2>3. check'[c] = x /\ \A d \in Checks \ {c} : check'[d] = check[d]
    BY <1>0, <2>2 DEF UpdateTypes
  <2>4. LockInv'
    BY <1>0, <1>1, <2>1, <2>2, <2>3 DEF LockInv
  <2>5. AnswerInv(c)'
    BY <1>0, <1>1, <2>1, <2>3 DEF AnswerInv
  <2>6. holder' \in Checks \cup {None}
    BY <1>0, <2>2
  <2>. QED
    BY <1>1, <1>2, <2>1, <2>2, <2>4, <2>5, <2>6, UpdateStep
<1>. QED
  BY <1>3, <1>5, <1>6, <1>7, <1>8

\* The feed answers, or fails.
LEMMA UpdateAnswers ==
    ASSUME UpdateAssumption, UpdateInv, NEW c \in Checks,
           UC!NotModified(c) \/ UC!Store(c) \/ UC!Fail(c)
    PROVE  UpdateInv'
<1>0. /\ UpdateTypes /\ FeedInv /\ CacheInv /\ LockInv /\ \A d \in Checks : AnswerInv(d)
      /\ now \in 0 .. MaxTime /\ TTL \in Nat /\ MaxTime \in Nat /\ cache \in Cached /\ check[c] \in AnyCheck
      /\ None \notin Nat \cup Checks \cup UC!Releases /\ feed \in UC!Releases
      /\ ended \in [UC!Releases -> Nat]
  BY DEF UpdateInv, UpdateTypes, UpdateAssumption, UC!TimesAssumption
<1>1. UNCHANGED <<now, feed, ended>> /\ holder' = None /\ check[c].pc = "sent"
  BY DEF UC!NotModified, UC!Store, UC!Fail, UC!Failed
<1>2. check[c].etag = cache.etag /\ \A d \in Checks \ {c} : check[d].pc # "sent"
  BY <1>0, <1>1 DEF LockInv
<1>3. ended[feed] = UC!Later /\ ended[feed] > now /\ check[c].at \in Nat /\ check[c].at <= now
  <2>1. Ahead(feed)
    BY DEF Ahead
  <2>. QED
    BY <1>0, <2>1 DEF FeedInv, UC!Later, AnswerInv, AnyCheck
<1>4. PICK a \in {None, feed} : UC!Answers(c, a)
  <2>1. CASE UC!NotModified(c)
    <3>1. cache.release = feed
      BY <1>0, <1>2, <2>1 DEF UC!NotModified, CacheInv
    <3>. QED
      BY <2>1, <3>1 DEF UC!NotModified
  <2>2. CASE UC!Store(c)
    BY <2>2 DEF UC!Store
  <2>3. CASE UC!Fail(c)
    BY <2>3 DEF UC!Fail, UC!Failed
  <2>. QED
    BY <2>1, <2>2, <2>3
<1>. DEFINE x == [check[c] EXCEPT !.pc = "idle", !.etag = None, !.answer = a]
<1>5. /\ x \in AnyCheck /\ x.pc = "idle" /\ x.answer = a /\ x.at = check[c].at /\ x.forced = check[c].forced
  BY <1>0 DEF AnyCheck
<1>6. check' = [check EXCEPT ![c] = x]
  BY <1>0, <1>4 DEF UC!Answers, UpdateTypes
<1>. HIDE DEF x
<1>7. check'[c] = x /\ \A d \in Checks \ {c} : check'[d] = check[d]
  BY <1>0, <1>5, <1>6 DEF UpdateTypes
<1>8. LockInv'
  BY <1>1, <1>2, <1>5, <1>7 DEF LockInv
<1>9. AnswerInv(c)'
  <2>1. a # None => ended[a] >= check[c].at
    BY <1>0, <1>3
  <2>. QED
    BY <1>1, <1>3, <1>5, <1>7, <2>1 DEF AnswerInv
<1>10. cache' \in Cached /\ CacheInv'
  <2>1. CASE UC!NotModified(c)
    <3>1. cache.release = feed /\ cache.etag = feed
      BY <1>0, <1>2, <2>1 DEF UC!NotModified, CacheInv
    <3>2. cache' = [cache EXCEPT !.at = check[c].at, !.until = 0]
      BY <2>1 DEF UC!NotModified
    <3>3. cache' \in Cached /\ cache'.release = feed /\ cache'.etag = feed /\ cache'.at = check[c].at
      BY <1>0, <1>3, <3>1, <3>2 DEF Cached
    <3>. QED
      BY <1>0, <1>1, <1>3, <3>3 DEF CacheInv
  <2>2. CASE UC!Store(c)
    <3>1. PICK e \in {None, feed} : cache' = [release |-> feed, etag |-> e, at |-> check[c].at, until |-> 0]
      BY <2>2 DEF UC!Store
    <3>2. cache' \in Cached /\ cache'.release = feed /\ cache'.etag \in {None, feed} /\ cache'.at = check[c].at
      BY <1>0, <1>3, <3>1 DEF Cached
    <3>. QED
      BY <1>0, <1>1, <1>3, <3>2 DEF CacheInv
  <2>3. CASE UC!Fail(c)
    <3>1. PICK d \in 0 .. MaxBackoff : cache' = [cache EXCEPT !.until = check[c].at + UC!Within(d)]
      BY <2>3 DEF UC!Fail
    <3>2. UC!Within(d) \in Nat
      BY DEF UC!Within, UpdateAssumption, UC!TimesAssumption
    <3>3. cache' \in Cached /\ cache'.release = cache.release /\ cache'.etag = cache.etag /\ cache'.at = cache.at
      BY <1>0, <1>3, <3>1, <3>2 DEF Cached
    <3>. QED
      BY <1>0, <1>1, <3>3 DEF CacheInv
  <2>. QED
    BY <2>1, <2>2, <2>3
<1>11. holder' \in Checks \cup {None}
  BY <1>1
<1>. QED
  BY <1>1, <1>5, <1>6, <1>8, <1>9, <1>10, <1>11, UpdateStep

\* For any number of checks, releases and bundles: a forced check is answered with a
\* release the feed had when it was asked for or later, any other with one that is older
\* by less than the TTL (check_at_with, refresh): whatever waits for the lock, fails or is
\* dropped meanwhile.
THEOREM UpdatesAreRecent ==
    ASSUME UpdateAssumption
    PROVE  UC!Spec => [](UC!TypeOK /\ UC!AnswersAreRecent)
<1>1. UC!Init => UpdateInv
  BY UpdateInit
<1>2. UpdateInv /\ [UC!Next]_UC!vars => UpdateInv'
  <2>1. CASE UC!Next
    BY <2>1, UpdateElsewhere, UpdateWaits, UpdateAnswers DEF UC!Next
  <2>2. CASE UNCHANGED UC!vars
    BY <2>2 DEF UC!vars, UpdateInv, UpdateTypes, FeedInv, Ahead, CacheInv, LockInv, AnswerInv
  <2>. QED
    BY <2>1, <2>2
<1>3. UpdateInv => UC!TypeOK /\ UC!AnswersAreRecent
  <2>. SUFFICES ASSUME UpdateInv PROVE UC!TypeOK /\ UC!AnswersAreRecent
    OBVIOUS
  <2>1. UC!TypeOK
    <3>1. /\ cache.release \in UC!Releases \cup {None}
          /\ holder # None => check[holder].pc = "sent"
      BY DEF UpdateInv, UpdateTypes, Cached, LockInv
    <3>2. cache.release = None => cache.etag = None /\ cache.at = None
      BY DEF UpdateInv, CacheInv
    <3>. QED
      BY <3>1, <3>2 DEF UC!TypeOK
  <2>2. UC!AnswersAreRecent
    BY DEF UpdateInv, AnswerInv, UC!AnswersAreRecent
  <2>. QED
    BY <2>1, <2>2
<1>. QED
  BY <1>1, <1>2, <1>3, PTL DEF UC!Spec

-----------------------------------------------------------------------------
(* The command history.                                                    *)

CONSTANTS Commands, Pushes, MaxWrites
VARIABLES event, entries, deleted, loader, call, writes, raced, crossed

CH == INSTANCE CommandHistory

LoaderState == [pc : {"init", "filter", "store", "list", "send", "wait"}, got : SUBSET Commands, watch : BOOLEAN]
HistoryCall == [pc : {"new", "change", "list", "send", "done"}, cmd : SUBSET Commands, items : SUBSET Commands]

HistoryAssumption ==
    /\ Pushes \cap Deletes = {} /\ IsFiniteSet(CH!Calls)
    /\ CH!Calls \cap LoaderState = {}

HistoryTypes ==
    /\ file \subseteq Commands /\ entries \subseteq Commands /\ deleted \subseteq Commands
    /\ shown \subseteq Commands /\ raced \subseteq Commands
    /\ event \in BOOLEAN /\ crossed \in BOOLEAN /\ writes \in Nat
    /\ loader \in LoaderState /\ call \in [CH!Calls -> HistoryCall]

\* What was deleted is in nothing that is about to be added, neither by a load nor by a push.
DeletedInv ==
    /\ CH!DeletedStaysAway
    /\ loader.pc = "init" => deleted \subseteq raced
    /\ loader.pc = "store" => loader.got \cap (deleted \ raced) = {}
    /\ \A p \in Pushes : call[p].pc = "change" => call[p].cmd \cap (deleted \ raced) = {}

ListsNext == loader.pc = "list" \/ \E c \in CH!Calls : call[c].pc = "list"
Sends(c)  == call[c].pc = "send"

\* Unless two lists crossed: what clients see is what there is, or a list is to be made or
\* sent; and one that is sent alone is what there is, or another is to be made.
ListInv == ~crossed =>
    /\ shown = entries \/ ListsNext \/ loader.pc = "send" \/ \E c \in CH!Calls : Sends(c)
    /\ loader.pc = "send" /\ (\A c \in CH!Calls : ~Sends(c)) => ListsNext \/ loader.got = entries
    /\ \A c \in CH!Calls : Sends(c) /\ loader.pc # "send" /\ (\A d \in CH!Calls : Sends(d) => d = c)
                             => ListsNext \/ call[c].items = entries

HistoryInv == HistoryTypes /\ DeletedInv /\ ListInv

\* The count the module takes is the one the library's theorems are about.
LEMMA CountSends == CH!Cardinality(CH!Sending) = Cardinality(CH!Sending)
  BY Zenon DEF CH!Cardinality, Cardinality

\* The number of lists that are being sent tells whether one is sent alone.
LEMMA OneSends ==
    ASSUME HistoryAssumption, HistoryTypes, NEW x \in CH!Sending, NEW y \in CH!Sending, x # y
    PROVE  Cardinality(CH!Sending) > 1
<1>1. IsFiniteSet(CH!Sending)
  <2>1. IsFiniteSet({c \in CH!Calls : CH!Reading(c)})
    BY FS_Subset DEF HistoryAssumption
  <2>2. IsFiniteSet(IF loader.pc = "send" THEN {loader} ELSE {})
    BY FS_Singleton, FS_EmptySet
  <2>3. IsFiniteSet({c \in CH!Calls : CH!Reading(c)} \cup (IF loader.pc = "send" THEN {loader} ELSE {}))
    BY <2>1, <2>2, FS_Union
  <2>. QED
    BY <2>3 DEF CH!Sending
<1>2. IsFiniteSet({x}) /\ Cardinality({x}) = 1
  BY FS_Singleton
<1>3. Cardinality({x} \cup {y}) = 2
  <2>1. Cardinality({x} \cup {y}) = Cardinality({x}) + 1
    BY <1>2, FS_AddElement
  <2>. QED
    BY <1>2, <2>1
<1>4. Cardinality({x} \cup {y}) <= Cardinality(CH!Sending)
  <2>1. {x} \cup {y} \in SUBSET CH!Sending
    OBVIOUS
  <2>. QED
    BY <1>1, <2>1, FS_Subset
<1>5. Cardinality(CH!Sending) \in Nat
  BY <1>1, FS_CardinalityType
<1>. QED
  BY <1>3, <1>4, <1>5

\* A step that neither changes nor shows a list leaves what is said of them.
LEMMA ListsStay ==
    ASSUME HistoryInv, UNCHANGED <<entries, shown, crossed>>,
           loader'.pc = "list" <=> loader.pc = "list",
           loader'.pc = "send" <=> loader.pc = "send",
           loader.pc = "send" => loader'.got = loader.got,
           \A c \in CH!Calls : /\ call'[c].pc = "list" <=> call[c].pc = "list"
                               /\ call'[c].pc = "send" <=> call[c].pc = "send"
                               /\ call'[c].items = call[c].items
    PROVE  ListInv'
<1>1. CH!Calls' = CH!Calls
  BY DEF CH!Calls
<1>2. ListsNext' <=> ListsNext
  BY <1>1 DEF ListsNext
<1>3. \A c \in CH!Calls : Sends(c)' <=> Sends(c)
  BY DEF Sends
<1>4. ListInv
  BY DEF HistoryInv
<1>5. CASE crossed'
  BY <1>5 DEF ListInv
<1>6. CASE ~crossed'
  <2>1. /\ shown = entries \/ ListsNext \/ loader.pc = "send" \/ \E c \in CH!Calls : Sends(c)
        /\ loader.pc = "send" /\ (\A c \in CH!Calls : ~Sends(c)) => ListsNext \/ loader.got = entries
        /\ \A c \in CH!Calls : Sends(c) /\ loader.pc # "send" /\ (\A d \in CH!Calls : Sends(d) => d = c)
                                 => ListsNext \/ call[c].items = entries
    BY <1>4, <1>6 DEF ListInv
  <2>2. shown' = entries' \/ ListsNext' \/ loader'.pc = "send" \/ \E c \in CH!Calls : Sends(c)'
    BY <1>2, <1>3, <2>1
  <2>3. loader'.pc = "send" /\ (\A c \in CH!Calls : ~Sends(c)') => ListsNext' \/ loader'.got = entries'
    BY <1>2, <1>3, <2>1
  <2>4. \A c \in CH!Calls : Sends(c)' /\ loader'.pc # "send" /\ (\A d \in CH!Calls : Sends(d)' => d = c)
                              => ListsNext' \/ call'[c].items = entries'
    BY <1>2, <1>3, <2>1
  <2>. QED
    BY <1>1, <2>2, <2>3, <2>4 DEF ListInv
<1>. QED
  BY <1>5, <1>6

LEMMA HistoryInit ==
    ASSUME CH!Init
    PROVE  HistoryInv
<1>1. /\ file \subseteq Commands /\ event = FALSE /\ writes = 0
      /\ entries = {} /\ deleted = {} /\ shown = {} /\ raced = {} /\ crossed = FALSE
      /\ loader = [pc |-> "init", got |-> {}, watch |-> FALSE]
      /\ call = [c \in CH!Calls |-> [pc |-> "new", cmd |-> {}, items |-> {}]]
  BY DEF CH!Init
<1>2. \A c \in CH!Calls : call[c] \in HistoryCall /\ call[c].pc = "new"
  BY <1>1 DEF HistoryCall
<1>3. call \in [CH!Calls -> HistoryCall] /\ loader \in LoaderState
  BY <1>1, <1>2 DEF LoaderState
<1>4. HistoryTypes
  BY <1>1, <1>3 DEF HistoryTypes
<1>5. DeletedInv
  BY <1>1 DEF DeletedInv, CH!DeletedStaysAway
<1>6. ListInv
  BY <1>1, <1>2 DEF ListInv, Sends
<1>. QED
  BY <1>4, <1>5, <1>6 DEF HistoryInv

\* The shell writes its file, and the loader reads and filters it.
LEMMA HistoryReads ==
    ASSUME HistoryInv, CH!ShellWrites \/ CH!ReadFile \/ CH!Filter
    PROVE  HistoryInv'
<1>0. /\ HistoryTypes /\ DeletedInv /\ loader \in LoaderState /\ file \subseteq Commands
      /\ CH!Calls' = CH!Calls
  BY DEF HistoryInv, HistoryTypes, CH!Calls
<1>1. UNCHANGED <<entries, deleted, call, shown, raced, crossed>>
  BY DEF CH!ShellWrites, CH!ReadFile, CH!Filter, CH!dataVars
<1>2. /\ file' \subseteq Commands /\ event' \in BOOLEAN /\ writes' \in Nat /\ loader' \in LoaderState
      /\ \/ loader' = loader
         \/ loader.pc = "init" /\ loader'.pc = "store"
         \/ loader.pc = "wait" /\ loader'.pc = "filter"
         \/ loader.pc = "filter" /\ loader'.pc = "store" /\ loader'.got \cap deleted = {}
  <2>1. CASE CH!ShellWrites
    <3>1. loader' = loader /\ file' \subseteq Commands /\ writes' = writes + 1 /\ event' = (event \/ loader.watch)
      BY <2>1 DEF CH!ShellWrites
    <3>. QED
      BY <1>0, <3>1 DEF HistoryTypes, LoaderState
  <2>2. CASE CH!ReadFile
    <3>1. file' = file /\ event' = FALSE /\ writes' = writes
      BY <2>2 DEF CH!ReadFile
    <3>2. CASE loader.pc = "init" /\ loader' = [loader EXCEPT !.pc = "store", !.got = file]
      BY <1>0, <3>1, <3>2 DEF HistoryTypes, LoaderState
    <3>3. CASE loader.pc = "wait" /\ loader' = [loader EXCEPT !.pc = "filter", !.got = file]
      BY <1>0, <3>1, <3>3 DEF HistoryTypes, LoaderState
    <3>. QED
      BY <2>2, <3>2, <3>3 DEF CH!ReadFile
  <2>3. CASE CH!Filter
    <3>1. /\ UNCHANGED <<file, event, writes>> /\ loader.pc = "filter"
          /\ loader' = [loader EXCEPT !.pc = "store", !.got = @ \ deleted]
      BY <2>3 DEF CH!Filter, CH!fileVars
    <3>2. loader' \in LoaderState /\ loader'.pc = "store" /\ loader'.got = loader.got \ deleted
      BY <1>0, <3>1 DEF LoaderState
    <3>. QED
      BY <1>0, <3>1, <3>2 DEF HistoryTypes
  <2>. QED
    BY <2>1, <2>2, <2>3
<1>3. HistoryTypes'
  BY <1>0, <1>1, <1>2 DEF HistoryTypes
<1>4. DeletedInv'
  BY <1>0, <1>1, <1>2 DEF DeletedInv, CH!DeletedStaysAway
<1>5. ListInv'
  <2>1. UNCHANGED <<entries, shown, crossed>>
    BY <1>1
  <2>2. /\ loader'.pc = "list" <=> loader.pc = "list"
        /\ loader'.pc = "send" <=> loader.pc = "send"
        /\ loader.pc = "send" => loader'.got = loader.got
    BY <1>2
  <2>3. \A c \in CH!Calls : /\ call'[c].pc = "list" <=> call[c].pc = "list"
                            /\ call'[c].pc = "send" <=> call[c].pc = "send"
                            /\ call'[c].items = call[c].items
    BY <1>1
  <2>. QED
    BY <2>1, <2>2, <2>3, ListsStay
<1>. QED
  BY <1>3, <1>4, <1>5 DEF HistoryInv

\* What was loaded becomes the history, and is listed and sent.
LEMMA HistoryLoads ==
    ASSUME HistoryAssumption, HistoryInv, CH!Replace \/ CH!ListLoaded \/ CH!SendLoaded
    PROVE  HistoryInv'
<1>0. /\ HistoryTypes /\ DeletedInv /\ ListInv /\ loader \in LoaderState /\ CH!Calls' = CH!Calls
      /\ crossed \in BOOLEAN
  BY DEF HistoryInv, HistoryTypes, CH!Calls
<1>1. UNCHANGED <<file, event, writes, deleted, call, raced>>
  BY DEF CH!Replace, CH!ListLoaded, CH!SendLoaded, CH!dataVars, CH!fileVars
<1>2. CASE CH!Replace
  <2>1. /\ loader.pc = "store" /\ entries' = loader.got /\ loader' = [loader EXCEPT !.pc = "list"]
        /\ shown' = shown /\ crossed' = crossed
    BY <1>2 DEF CH!Replace
  <2>2. loader' \in LoaderState /\ loader'.pc = "list" /\ loader.got \subseteq Commands
    BY <1>0, <2>1 DEF LoaderState
  <2>3. HistoryTypes'
    BY <1>0, <1>1, <2>1, <2>2 DEF HistoryTypes
  <2>4. DeletedInv'
    BY <1>0, <1>1, <2>1, <2>2 DEF DeletedInv, CH!DeletedStaysAway
  <2>5. ListsNext'
    BY <2>2 DEF ListsNext
  <2>6. ListInv'
    BY <2>2, <2>5 DEF ListInv
  <2>. QED
    BY <2>3, <2>4, <2>6 DEF HistoryInv
<1>3. CASE CH!ListLoaded
  <2>1. /\ loader.pc = "list" /\ loader' = [loader EXCEPT !.pc = "send", !.got = entries]
        /\ shown' = shown /\ crossed' = crossed /\ entries' = entries
    BY <1>3 DEF CH!ListLoaded, CH!dataVars
  <2>2. loader' \in LoaderState /\ loader'.pc = "send" /\ loader'.got = entries'
    BY <1>0, <2>1 DEF LoaderState, HistoryTypes
  <2>3. HistoryTypes'
    BY <1>0, <1>1, <2>1, <2>2 DEF HistoryTypes
  <2>4. DeletedInv'
    BY <1>0, <1>1, <2>1, <2>2 DEF DeletedInv, CH!DeletedStaysAway
  <2>5. ListInv'
    BY <2>2 DEF ListInv
  <2>. QED
    BY <2>3, <2>4, <2>5 DEF HistoryInv
<1>4. CASE CH!SendLoaded
  <2>1. /\ loader.pc = "send" /\ shown' = loader.got /\ loader' = [pc |-> "wait", got |-> {}, watch |-> TRUE]
        /\ crossed' = (crossed \/ Cardinality(CH!Sending) > 1) /\ entries' = entries
    <3>1. crossed' = (crossed \/ Cardinality(CH!Sending) > 1)
      BY <1>4, CountSends, Zenon DEF CH!SendLoaded, CH!Crossing
    <3>. QED
      BY <1>4, <3>1 DEF CH!SendLoaded, CH!dataVars
  <2>2. loader' \in LoaderState /\ loader'.pc = "wait" /\ loader.got \subseteq Commands
    BY <1>0, <2>1 DEF LoaderState
  <2>3. HistoryTypes'
    <3>1. crossed' \in BOOLEAN
      BY <2>1
    <3>. QED
      BY <1>0, <1>1, <2>1, <2>2, <3>1 DEF HistoryTypes
  <2>4. DeletedInv'
    BY <1>0, <1>1, <2>1, <2>2 DEF DeletedInv, CH!DeletedStaysAway
  <2>5. ListInv'
    <3>. SUFFICES ASSUME ~crossed' PROVE ListInv'
      BY DEF ListInv
    <3>1. ~crossed /\ ~(Cardinality(CH!Sending) > 1)
      BY <2>1
    <3>2. \A c \in CH!Calls : ~Sends(c)
      <4>. SUFFICES ASSUME NEW c \in CH!Calls, Sends(c) PROVE FALSE
        OBVIOUS
      <4>1. c \in CH!Sending /\ loader \in CH!Sending /\ c # loader
        BY <1>0, <2>1 DEF CH!Sending, CH!Reading, Sends, HistoryAssumption
      <4>. QED
        BY <1>0, <3>1, <4>1, OneSends
    <3>3. ListsNext \/ loader.got = entries
      BY <1>0, <2>1, <3>1, <3>2 DEF ListInv
    <3>4. ListsNext => ListsNext'
      BY <1>0, <1>1, <2>1 DEF ListsNext
    <3>5. \A c \in CH!Calls : ~Sends(c)'
      BY <1>1, <3>2 DEF Sends
    <3>. QED
      BY <1>0, <2>1, <2>2, <3>3, <3>4, <3>5 DEF ListInv
  <2>. QED
    BY <2>3, <2>4, <2>5 DEF HistoryInv
<1>. QED
  BY <1>2, <1>3, <1>4

\* A push or a deletion looks at what is deleted.
LEMMA HistoryBegins ==
    ASSUME HistoryAssumption, HistoryInv, NEW k \in CH!Calls,
           (k \in Pushes /\ CH!CheckPush(k)) \/ (k \in Deletes /\ CH!MarkDeleted(k))
    PROVE  HistoryInv'
<1>0. /\ HistoryTypes /\ DeletedInv /\ call[k] \in HistoryCall /\ CH!Calls' = CH!Calls
      /\ Pushes \subseteq CH!Calls /\ Deletes \subseteq CH!Calls /\ Pushes \cap Deletes = {}
  BY DEF HistoryInv, HistoryTypes, CH!Calls, HistoryAssumption
<1>1. UNCHANGED <<file, event, writes, entries, loader, shown, crossed>> /\ call[k].pc = "new"
  BY DEF CH!CheckPush, CH!MarkDeleted, CH!dataVars, CH!fileVars
<1>2. PICK cmd \in Commands, x \in HistoryCall :
        /\ call' = [call EXCEPT ![k] = x] /\ x.items = call[k].items /\ x.cmd = {cmd}
        /\ \/ /\ k \in Pushes /\ UNCHANGED <<deleted, raced>>
              /\ x.pc = IF cmd \in deleted THEN "done" ELSE "change"
           \/ /\ k \in Deletes /\ x.pc = "change" /\ deleted' = deleted \cup {cmd}
              /\ raced' = IF \/ loader.pc \in {"init", "store"}
                             \/ \E p \in Pushes : call[p].pc = "change" /\ cmd \in call[p].cmd
                          THEN raced \cup {cmd} ELSE raced
  <2>1. CASE k \in Pushes /\ CH!CheckPush(k)
    <3>1. PICK cmd \in Commands :
            call' = [call EXCEPT ![k] = [@ EXCEPT !.cmd = {cmd},
                       !.pc = IF cmd \in deleted THEN "done" ELSE "change"]]
      BY <2>1 DEF CH!CheckPush
    <3>. DEFINE x == [call[k] EXCEPT !.cmd = {cmd}, !.pc = IF cmd \in deleted THEN "done" ELSE "change"]
    <3>2. /\ x \in HistoryCall /\ x.items = call[k].items /\ x.cmd = {cmd}
          /\ x.pc = IF cmd \in deleted THEN "done" ELSE "change"
          /\ call' = [call EXCEPT ![k] = x]
      BY <1>0, <3>1 DEF HistoryCall, HistoryTypes
    <3>3. UNCHANGED <<deleted, raced>>
      BY <2>1 DEF CH!CheckPush, CH!dataVars
    <3>. HIDE DEF x
    <3>. QED
      BY <2>1, <3>2, <3>3
  <2>2. CASE k \in Deletes /\ CH!MarkDeleted(k)
    <3>1. PICK cmd \in Commands :
            /\ deleted' = deleted \cup {cmd}
            /\ call' = [call EXCEPT ![k].pc = "change", ![k].cmd = {cmd}]
            /\ raced' = IF \/ loader.pc \in {"init", "store"}
                           \/ \E p \in Pushes : call[p].pc = "change" /\ cmd \in call[p].cmd
                        THEN raced \cup {cmd} ELSE raced
      BY <2>2 DEF CH!MarkDeleted
    <3>. DEFINE x == [call[k] EXCEPT !.pc = "change", !.cmd = {cmd}]
    <3>2. /\ x \in HistoryCall /\ x.items = call[k].items /\ x.cmd = {cmd} /\ x.pc = "change"
          /\ call' = [call EXCEPT ![k] = x]
      BY <1>0, <3>1 DEF HistoryCall, HistoryTypes
    <3>. HIDE DEF x
    <3>. QED
      BY <2>2, <3>1, <3>2
  <2>. QED
    BY <2>1, <2>2
<1>3. call'[k] = x /\ \A c \in CH!Calls \ {k} : call'[c] = call[c]
  BY <1>0, <1>2 DEF HistoryTypes
<1>4. HistoryTypes'
  <2>1. call' \in [CH!Calls -> HistoryCall]
    BY <1>0, <1>2 DEF HistoryTypes
  <2>2. deleted' \subseteq Commands /\ raced' \subseteq Commands
    BY <1>0, <1>2 DEF HistoryTypes
  <2>. QED
    BY <1>0, <1>1, <2>1, <2>2 DEF HistoryTypes
<1>5. DeletedInv'
  <2>1. /\ \A e \in deleted \ raced :
             e \in entries => \E d \in Deletes : call[d].pc = "change" /\ e \in call[d].cmd
        /\ loader.pc = "init" => deleted \subseteq raced
        /\ loader.pc = "store" => loader.got \cap (deleted \ raced) = {}
        /\ \A p \in Pushes : call[p].pc = "change" => call[p].cmd \cap (deleted \ raced) = {}
    BY <1>0 DEF DeletedInv, CH!DeletedStaysAway
  <2>2. \A d \in Deletes \ {k} : call'[d] = call[d]
    BY <1>0, <1>3
  <2>3. CASE /\ k \in Pushes /\ UNCHANGED <<deleted, raced>>
             /\ x.pc = IF cmd \in deleted THEN "done" ELSE "change"
    <3>1. CH!DeletedStaysAway'
      BY <1>0, <1>1, <2>1, <2>2, <2>3 DEF CH!DeletedStaysAway
    <3>2. \A p \in Pushes : call'[p].pc = "change" => call'[p].cmd \cap (deleted' \ raced') = {}
      BY <1>0, <1>2, <1>3, <2>1, <2>3
    <3>. QED
      BY <1>1, <2>1, <2>3, <3>1, <3>2 DEF DeletedInv
  <2>4. CASE /\ k \in Deletes /\ x.pc = "change" /\ deleted' = deleted \cup {cmd}
             /\ raced' = IF \/ loader.pc \in {"init", "store"}
                            \/ \E p \in Pushes : call[p].pc = "change" /\ cmd \in call[p].cmd
                         THEN raced \cup {cmd} ELSE raced
    <3>1. \A e \in deleted' \ raced' : e = cmd \/ e \in deleted \ raced
      BY <2>4
    <3>2. CH!DeletedStaysAway'
      <4>. SUFFICES ASSUME NEW e \in deleted' \ raced', e \in entries'
                    PROVE  \E d \in Deletes : call'[d].pc = "change" /\ e \in call'[d].cmd
        BY DEF CH!DeletedStaysAway
      <4>1. CASE e = cmd
        BY <1>2, <1>3, <2>4, <4>1
      <4>2. CASE e # cmd
        <5>1. PICK d \in Deletes : call[d].pc = "change" /\ e \in call[d].cmd
          BY <1>1, <2>1, <3>1, <4>2
        <5>2. d # k
          BY <1>1, <5>1
        <5>. QED
          BY <2>2, <5>1, <5>2
      <4>. QED
        BY <4>1, <4>2
    <3>3. loader'.pc = "init" => deleted' \subseteq raced'
      BY <1>1, <2>1, <2>4
    <3>4. loader'.pc = "store" => loader'.got \cap (deleted' \ raced') = {}
      BY <1>1, <2>1, <2>4
    <3>5. \A p \in Pushes : call'[p].pc = "change" => call'[p].cmd \cap (deleted' \ raced') = {}
      <4>. SUFFICES ASSUME NEW p \in Pushes, call'[p].pc = "change", NEW e \in call'[p].cmd, e \in deleted' \ raced'
                    PROVE  FALSE
        OBVIOUS
      <4>1. call'[p] = call[p]
        BY <1>0, <1>3, <2>4
      <4>2. CASE e = cmd
        BY <2>4, <4>1, <4>2
      <4>3. CASE e # cmd
        BY <2>1, <3>1, <4>1, <4>3
      <4>. QED
        BY <4>2, <4>3
    <3>. QED
      BY <3>2, <3>3, <3>4, <3>5 DEF DeletedInv
  <2>. QED
    BY <1>2, <2>3, <2>4
<1>6. ListInv'
  <2>1. UNCHANGED <<entries, shown, crossed>>
    BY <1>1
  <2>2. /\ loader'.pc = "list" <=> loader.pc = "list"
        /\ loader'.pc = "send" <=> loader.pc = "send"
        /\ loader.pc = "send" => loader'.got = loader.got
    BY <1>1
  <2>3. \A c \in CH!Calls : /\ call'[c].pc = "list" <=> call[c].pc = "list"
                            /\ call'[c].pc = "send" <=> call[c].pc = "send"
                            /\ call'[c].items = call[c].items
    BY <1>1, <1>2, <1>3
  <2>. QED
    BY <2>1, <2>2, <2>3, ListsStay
<1>. QED
  BY <1>4, <1>5, <1>6 DEF HistoryInv

\* A push or a deletion changes the history, lists it, and sends the list.
LEMMA HistoryGoesOn ==
    ASSUME HistoryAssumption, HistoryInv, NEW k \in CH!Calls,
           \/ k \in Pushes /\ CH!AddPushed(k)
           \/ k \in Deletes /\ CH!RemoveDeleted(k)
           \/ CH!ListChanged(k) \/ CH!SendChanged(k)
    PROVE  HistoryInv'
<1>0. /\ HistoryTypes /\ DeletedInv /\ ListInv /\ call[k] \in HistoryCall /\ CH!Calls' = CH!Calls
      /\ Pushes \subseteq CH!Calls /\ Deletes \subseteq CH!Calls /\ Pushes \cap Deletes = {}
      /\ crossed \in BOOLEAN /\ loader \in LoaderState
  BY DEF HistoryInv, HistoryTypes, CH!Calls, HistoryAssumption
<1>1. UNCHANGED <<file, event, writes, deleted, loader, raced>>
  BY DEF CH!AddPushed, CH!RemoveDeleted, CH!ListChanged, CH!SendChanged, CH!dataVars, CH!fileVars
<1>2. /\ \A e \in deleted \ raced :
           e \in entries => \E d \in Deletes : call[d].pc = "change" /\ e \in call[d].cmd
      /\ \A p \in Pushes : call[p].pc = "change" => call[p].cmd \cap (deleted \ raced) = {}
  BY <1>0 DEF DeletedInv, CH!DeletedStaysAway
\* What is left to show: the call becomes another that is not about to change anything.
<1>3. ASSUME NEW x \in HistoryCall, call' = [call EXCEPT ![k] = x], x.pc # "change",
             entries' \subseteq Commands, shown' \subseteq Commands, crossed' \in BOOLEAN, ListInv',
             \A e \in deleted \ raced : e \in entries' =>
                e \in entries /\ (k \in Deletes /\ call[k].pc = "change" => e \notin call[k].cmd)
      PROVE  HistoryInv'
  <2>1. call'[k] = x /\ \A c \in CH!Calls \ {k} : call'[c] = call[c]
    BY <1>0, <1>3 DEF HistoryTypes
  <2>2. call' \in [CH!Calls -> HistoryCall]
    BY <1>0, <1>3 DEF HistoryTypes
  <2>3. HistoryTypes'
    BY <1>0, <1>1, <1>3, <2>2 DEF HistoryTypes
  <2>4. CH!DeletedStaysAway'
    <3>. SUFFICES ASSUME NEW e \in deleted \ raced, e \in entries'
                  PROVE  \E d \in Deletes : call'[d].pc = "change" /\ e \in call'[d].cmd
      BY <1>1 DEF CH!DeletedStaysAway
    <3>1. PICK d \in Deletes : call[d].pc = "change" /\ e \in call[d].cmd
      BY <1>2, <1>3
    <3>2. d # k
      BY <1>3, <3>1
    <3>. QED
      BY <1>0, <2>1, <3>1, <3>2
  <2>5. \A p \in Pushes : call'[p].pc = "change" => call'[p].cmd \cap (deleted \ raced) = {}
    BY <1>0, <1>2, <1>3, <2>1
  <2>6. DeletedInv'
    BY <1>0, <1>1, <2>4, <2>5 DEF DeletedInv
  <2>. QED
    BY <1>3, <2>3, <2>6 DEF HistoryInv
<1>4. CASE (k \in Pushes /\ CH!AddPushed(k)) \/ (k \in Deletes /\ CH!RemoveDeleted(k))
  <2>. DEFINE x == [call[k] EXCEPT !.pc = "list"]
  <2>1. /\ x \in HistoryCall /\ x.pc = "list" /\ call' = [call EXCEPT ![k] = x]
        /\ call[k].pc = "change" /\ shown' = shown /\ crossed' = crossed
    BY <1>0, <1>4 DEF HistoryCall, HistoryTypes, CH!AddPushed, CH!RemoveDeleted
  <2>. HIDE DEF x
  <2>2. \/ k \in Pushes /\ entries' = entries \cup call[k].cmd
        \/ k \in Deletes /\ entries' = entries \ call[k].cmd
    BY <1>4 DEF CH!AddPushed, CH!RemoveDeleted
  <2>3. call'[k].pc = "list"
    BY <1>0, <2>1 DEF HistoryTypes
  <2>4. ListInv'
    <3>1. ListsNext' /\ ~(loader'.pc = "send" /\ \A c \in CH!Calls : ~Sends(c)' /\ ~ListsNext')
      BY <1>0, <2>3 DEF ListsNext
    <3>. QED
      BY <3>1 DEF ListInv
  <2>5. entries' \subseteq Commands /\ shown' \subseteq Commands
    BY <1>0, <2>1, <2>2 DEF HistoryTypes, HistoryCall
  <2>6. \A e \in deleted \ raced : e \in entries' =>
           e \in entries /\ (k \in Deletes /\ call[k].pc = "change" => e \notin call[k].cmd)
    BY <1>0, <1>2, <2>1, <2>2
  <2>7. x.pc # "change" /\ crossed' \in BOOLEAN
    BY <1>0, <2>1
  <2>. QED
    BY <1>3, <2>1, <2>4, <2>5, <2>6, <2>7
<1>5. CASE CH!ListChanged(k)
  <2>. DEFINE x == [call[k] EXCEPT !.pc = "send", !.items = entries]
  <2>1. /\ x \in HistoryCall /\ x.pc = "send" /\ x.items = entries /\ call' = [call EXCEPT ![k] = x]
        /\ call[k].pc = "list" /\ UNCHANGED <<entries, shown, crossed>>
    BY <1>0, <1>5 DEF HistoryCall, HistoryTypes, CH!ListChanged, CH!dataVars
  <2>. HIDE DEF x
  <2>2. call'[k] = x
    BY <1>0, <2>1 DEF HistoryTypes
  <2>3. Sends(k)'
    BY <2>1, <2>2 DEF Sends
  <2>4. ListInv'
    <3>1. \A c \in CH!Calls : (\A d \in CH!Calls : Sends(d)' => d = c) => c = k
      BY <2>3
    <3>2. call'[k].items = entries'
      BY <2>1, <2>2
    <3>. QED
      BY <1>0, <2>3, <3>1, <3>2 DEF ListInv
  <2>5. entries' \subseteq Commands /\ shown' \subseteq Commands /\ crossed' \in BOOLEAN
    BY <1>0, <2>1 DEF HistoryTypes
  <2>6. \A e \in deleted \ raced : e \in entries' =>
           e \in entries /\ (k \in Deletes /\ call[k].pc = "change" => e \notin call[k].cmd)
    BY <2>1
  <2>7. x.pc # "change"
    BY <2>1
  <2>. QED
    BY <1>3, <2>1, <2>4, <2>5, <2>6, <2>7
<1>6. CASE CH!SendChanged(k)
  <2>. DEFINE x == [call[k] EXCEPT !.pc = "done", !.items = {}]
  <2>1. /\ x \in HistoryCall /\ x.pc = "done" /\ call' = [call EXCEPT ![k] = x]
        /\ call[k].pc = "send" /\ shown' = call[k].items /\ entries' = entries
    BY <1>0, <1>6 DEF HistoryCall, HistoryTypes, CH!SendChanged, CH!dataVars
  <2>. HIDE DEF x
  <2>2. crossed' = (crossed \/ Cardinality(CH!Sending) > 1)
    BY <1>6, CountSends, Zenon DEF CH!SendChanged, CH!Crossing
  <2>3. call'[k] = x /\ \A c \in CH!Calls \ {k} : call'[c] = call[c]
    BY <1>0, <2>1 DEF HistoryTypes
  <2>4. ListInv'
    <3>. SUFFICES ASSUME ~crossed' PROVE ListInv'
      BY DEF ListInv
    <3>1. ~crossed /\ ~(Cardinality(CH!Sending) > 1)
      BY <2>2
    <3>2. k \in CH!Sending
      BY <2>1 DEF CH!Sending, CH!Reading
    <3>3. loader.pc # "send"
      <4>. SUFFICES ASSUME loader.pc = "send" PROVE FALSE
        OBVIOUS
      <4>1. loader \in CH!Sending /\ loader # k
        BY <1>0 DEF CH!Sending, HistoryAssumption
      <4>. QED
        BY <1>0, <3>1, <3>2, <4>1, OneSends
    <3>4. \A d \in CH!Calls : Sends(d) => d = k
      <4>. SUFFICES ASSUME NEW d \in CH!Calls, Sends(d), d # k PROVE FALSE
        OBVIOUS
      <4>1. d \in CH!Sending
        BY DEF CH!Sending, CH!Reading, Sends
      <4>. QED
        BY <1>0, <3>1, <3>2, <4>1, OneSends
    <3>5. ListsNext \/ call[k].items = entries
      BY <1>0, <2>1, <3>1, <3>3, <3>4 DEF ListInv, Sends
    <3>6. ListsNext => ListsNext'
      BY <1>0, <1>1, <2>1, <2>3 DEF ListsNext
    <3>7. \A d \in CH!Calls : ~Sends(d)'
      BY <2>1, <2>3, <3>4 DEF Sends
    <3>. QED
      BY <1>0, <1>1, <2>1, <3>3, <3>5, <3>6, <3>7 DEF ListInv
  <2>5. entries' \subseteq Commands /\ shown' \subseteq Commands /\ crossed' \in BOOLEAN
    BY <1>0, <2>1, <2>2 DEF HistoryTypes, HistoryCall
  <2>6. \A e \in deleted \ raced : e \in entries' =>
           e \in entries /\ (k \in Deletes /\ call[k].pc = "change" => e \notin call[k].cmd)
    BY <2>1
  <2>7. x.pc # "change"
    BY <2>1
  <2>. QED
    BY <1>3, <2>1, <2>4, <2>5, <2>6, <2>7
<1>. QED
  BY <1>4, <1>5, <1>6

\* For any number of pushes, deletions and commands: a command that was deleted does not
\* come back, unless it was deleted while a load or a push of it had looked at the deleted
\* ones already; and clients show the suggestions the server has once the calls are over,
\* except after two lists were under way at once (push_realtime, delete,
\* reload_incremental, broadcast_top).
THEOREM DeletedCommandsStayAway ==
    ASSUME HistoryAssumption
    PROVE  CH!Spec => [](CH!TypeOK /\ CH!DeletedStaysAway /\ CH!ClientsShowEntries)
<1>1. CH!Init => HistoryInv
  BY HistoryInit
<1>2. HistoryInv /\ [CH!Next]_CH!vars => HistoryInv'
  <2>. SUFFICES ASSUME HistoryInv, [CH!Next]_CH!vars PROVE HistoryInv'
    OBVIOUS
  <2>1. CASE CH!ShellWrites \/ CH!ReadFile \/ CH!Filter
    BY <2>1, HistoryReads
  <2>2. CASE CH!Replace \/ CH!ListLoaded \/ CH!SendLoaded
    BY <2>2, HistoryLoads
  <2>3. ASSUME NEW p \in Pushes, CH!CheckPush(p) \/ CH!AddPushed(p) PROVE HistoryInv'
    <3>1. p \in CH!Calls
      BY DEF CH!Calls
    <3>. QED
      BY <2>3, <3>1, HistoryBegins, HistoryGoesOn
  <2>4. ASSUME NEW d \in Deletes, CH!MarkDeleted(d) \/ CH!RemoveDeleted(d) PROVE HistoryInv'
    <3>1. d \in CH!Calls
      BY DEF CH!Calls
    <3>. QED
      BY <2>4, <3>1, HistoryBegins, HistoryGoesOn
  <2>5. ASSUME NEW c \in CH!Calls, CH!ListChanged(c) \/ CH!SendChanged(c) PROVE HistoryInv'
    BY <2>5, HistoryGoesOn
  <2>6. CASE UNCHANGED CH!vars
    <3>1. /\ UNCHANGED <<file, event, writes, entries, deleted, loader, call, shown, raced, crossed>>
          /\ CH!Calls' = CH!Calls
      BY <2>6 DEF CH!vars, CH!fileVars, CH!dataVars, CH!Calls
    <3>. QED
      BY <3>1 DEF HistoryInv, HistoryTypes, DeletedInv, CH!DeletedStaysAway, ListInv, ListsNext, Sends
  <2>. QED
    BY <2>1, <2>2, <2>3, <2>4, <2>5, <2>6 DEF CH!Next
<1>3. HistoryInv => CH!TypeOK /\ CH!DeletedStaysAway /\ CH!ClientsShowEntries
  <2>. SUFFICES ASSUME HistoryInv PROVE CH!TypeOK /\ CH!DeletedStaysAway /\ CH!ClientsShowEntries
    OBVIOUS
  <2>1. CH!TypeOK
    BY DEF HistoryInv, HistoryTypes, LoaderState, HistoryCall, CH!TypeOK
  <2>2. CH!ClientsShowEntries
    <3>. SUFFICES ASSUME ~crossed, loader.pc = "wait", \A c \in CH!Calls : call[c].pc \in {"new", "done"}
                  PROVE  shown = entries
      BY DEF CH!ClientsShowEntries
    <3>1. ~ListsNext /\ \A c \in CH!Calls : ~Sends(c)
      BY DEF ListsNext, Sends
    <3>. QED
      BY <3>1 DEF HistoryInv, ListInv
  <2>. QED
    BY <2>1, <2>2 DEF HistoryInv, DeletedInv
<1>. QED
  BY <1>1, <1>2, <1>3, PTL DEF CH!Spec

-----------------------------------------------------------------------------
(* Starting at login.                                                      *)

CONSTANTS Platforms, Windows, MacOS, Deb, AppImage, Places, Missing, Malformed, MaxChanges
VARIABLES platform, place, evidence, entry, lock, enabled, trayThen, written, inForce, changes

AU == INSTANCE Autostart

AutostartAssumption ==
    /\ Platforms \subseteq {Windows, MacOS, Deb, AppImage}
    /\ Missing \notin Places

AutostartInv == AU!TypeOK /\ AU!AnswersHold

\* What a package would register is where the program was started from, if anything.
LEMMA TargetIsHere ==
    ASSUME AutostartAssumption, AU!TypeOK, NEW t
    PROVE  AU!Capability(t).path \in {place, Missing}
<1>1. platform \in {Windows, MacOS, Deb, AppImage}
  BY DEF AutostartAssumption, AU!TypeOK
<1>. QED
  BY <1>1 DEF AU!Capability, AU!OnWindows, AU!OnMacOS, AU!AsDeb, AU!AsAppImage

\* For any package, any places and any number of calls and changes: an answer without an
\* error holds until somebody changes the entry, although the program's file may be moved
\* and the entry be edited in the middle of the call (set_autostart).
THEOREM AutostartAnswersHold ==
    ASSUME AutostartAssumption
    PROVE  AU!Spec => [](AU!TypeOK /\ AU!AnswersHold)
<1>1. AU!Init => AutostartInv
  BY DEF AU!Init, AutostartInv, AU!TypeOK, AU!AnswersHold
<1>2. ASSUME AutostartInv, NEW c \in Calls, NEW f, AU!Answered(c, f), f \subseteq {entry},
             f \subseteq Places \cup {Missing}
      PROVE  AutostartInv'
  BY <1>2 DEF AutostartInv, AU!TypeOK, AU!AnswersHold, AU!Answered, AU!world
<1>3. ASSUME AutostartInv, NEW c \in Calls,
             AU!Take(c) \/ AU!Check(c) \/ AU!Recheck(c) \/ AU!Write(c) \/ AU!Verify(c)
      PROVE  AutostartInv'
  <2>0. AU!TypeOK /\ inForce \subseteq {entry} /\ inForce \subseteq Places \cup {Missing} /\ place \in Places
    BY <1>3 DEF AutostartInv, AU!TypeOK, AU!AnswersHold
  <2>1. AU!Answered(c, inForce) => AutostartInv'
    BY <1>2, <1>3, <2>0
  <2>2. CASE AU!Take(c)
    BY <1>3, <2>2 DEF AU!Take, AutostartInv, AU!TypeOK, AU!AnswersHold, AU!world
  <2>3. CASE AU!Check(c)
    <3>1. AU!Answered(c, inForce)
          \/ UNCHANGED <<platform, place, evidence, tray, entry, lock, target, inForce>>
      BY <2>3 DEF AU!Check, AU!world
    <3>. QED
      BY <1>3, <2>1, <3>1 DEF AutostartInv, AU!TypeOK, AU!AnswersHold
  <2>4. CASE AU!Recheck(c)
    <3>1. \/ AU!Answered(c, inForce)
          \/ /\ UNCHANGED <<platform, place, evidence, tray, entry, lock, inForce>>
             /\ target' = [target EXCEPT ![c] = AU!Capability(trayThen[c]).path]
      BY <2>4 DEF AU!Recheck, AU!world
    <3>2. AU!Capability(trayThen[c]).path \in Places \cup {Missing}
      BY <2>0, TargetIsHere
    <3>. QED
      BY <1>3, <2>1, <3>1, <3>2 DEF AutostartInv, AU!TypeOK, AU!AnswersHold
  <2>5. CASE AU!Write(c)
    <3>1. /\ UNCHANGED <<platform, place, evidence, tray, lock, target>>
          /\ inForce' = IF entry' = entry THEN inForce ELSE {}
          /\ entry' \in {entry, target[c], Missing}
      BY <2>5 DEF AU!Write, AU!Enable, AU!Disable, AU!world
    <3>. QED
      BY <1>3, <3>1 DEF AutostartInv, AU!TypeOK, AU!AnswersHold
  <2>6. CASE AU!Verify(c)
    <3>. DEFINE f == IF written[c] /\ AU!Reachable /\ AU!AsAsked(c)
                       THEN {IF enabled[c] THEN place ELSE Missing} ELSE inForce
    <3>1. AU!Answered(c, f)
      BY <2>6 DEF AU!Verify
    <3>2. AU!AsAsked(c) => entry = IF enabled[c] THEN place ELSE Missing
      BY <2>0, TargetIsHere DEF AU!AsAsked
    <3>3. f \subseteq {entry} /\ f \subseteq Places \cup {Missing}
      BY <2>0, <3>2
    <3>. QED
      BY <1>2, <1>3, <3>1, <3>3
  <2>. QED
    BY <1>3, <2>2, <2>3, <2>4, <2>5, <2>6
<1>4. ASSUME AutostartInv,
             \/ \E e \in Places \cup {Missing, Malformed} : AU!EditEntry(e)
             \/ AU!MoveFile \/ AU!ChangeTray \/ \E p \in Places : AU!Restart(p)
             \/ UNCHANGED AU!vars
      PROVE  AutostartInv'
  <2>1. CASE \E e \in Places \cup {Missing, Malformed} : AU!EditEntry(e)
    BY <1>4, <2>1 DEF AU!EditEntry, AutostartInv, AU!TypeOK, AU!AnswersHold, AU!world, AU!call
  <2>2. CASE AU!MoveFile
    BY <1>4, <2>2 DEF AU!MoveFile, AutostartInv, AU!TypeOK, AU!AnswersHold, AU!call
  <2>3. CASE AU!ChangeTray
    BY <1>4, <2>3 DEF AU!ChangeTray, AutostartInv, AU!TypeOK, AU!AnswersHold, AU!call
  <2>4. CASE \E p \in Places : AU!Restart(p)
    BY <1>4, <2>4 DEF AU!Restart, AutostartInv, AU!TypeOK, AU!AnswersHold
  <2>5. CASE UNCHANGED AU!vars
    BY <1>4, <2>5 DEF AU!vars, AU!world, AU!call, AutostartInv, AU!TypeOK, AU!AnswersHold
  <2>. QED
    BY <1>4, <2>1, <2>2, <2>3, <2>4, <2>5
<1>5. AutostartInv /\ [AU!Next]_AU!vars => AutostartInv'
  BY <1>3, <1>4 DEF AU!Next
<1>. QED
  BY <1>1, <1>5, PTL DEF AU!Spec, AutostartInv

-----------------------------------------------------------------------------
(* Themes and language packs.                                              *)

CONSTANTS Installs, Torn, ByHand
VARIABLES kind, inode, json, tmp, conf, job, crashed

IS == INSTANCE InstalledFiles

InstallAssumption == Installs \cap Deletes = {} /\ None \notin Installs

FileJob == [pc : {"new", "open", "write", "rename", "conf", "done", "refused", "failed"},
            fd : Installs \cup {None}]

FileTypes ==
    /\ json \in Installs \cup {None} /\ tmp \in Installs \cup {None}
    /\ inode \in [Installs -> Installs \cup {None, Torn}]
    /\ conf \in {None, ByHand} /\ (kind # "theme" => conf = None)
    /\ job \in [IS!Jobs -> FileJob]
    /\ \A i \in Installs : job[i].pc # "conf"
    /\ \A d \in Deletes : job[d].pc \notin {"open", "write", "rename"}

\* The two names are never of one inode, and an install has no inode before it opens one.
NameInv ==
    /\ json # None => json # tmp
    /\ \A n \in Installs : n = json \/ n = tmp => job[n].pc \notin {"new", "open", "refused"}

\* Unless two changes were under way at once, the one that is writes to the temporary file.
WritesAlone == ~crossed =>
    /\ \A j, k \in IS!Jobs : IS!Busy(j) /\ IS!Busy(k) => j = k
    /\ \A i \in Installs : /\ job[i].pc \in {"write", "rename"} => tmp # None /\ job[i].fd = tmp
                           /\ job[i].pc = "rename" => inode[tmp] = i

DeletesFinish == \A d \in Deletes : job[d].pc # "failed"
ShowsInstalled == ~crossed /\ DeletesFinish =>
    /\ (\A d \in Deletes : job[d].pc # "conf") => IS!Listed = installed
    /\ (\E d \in Deletes : job[d].pc = "conf") => json = None

FileInv == FileTypes /\ NameInv /\ WritesAlone /\ ShowsInstalled

LEMMA FileInit ==
    ASSUME InstallAssumption, IS!Init
    PROVE  FileInv
<1>1. /\ kind \in {"theme", "pack"} /\ inode = [n \in Installs |-> None] /\ json = None /\ tmp = None
      /\ conf \in (IF kind = "theme" THEN {None, ByHand} ELSE {None})
      /\ job = [j \in IS!Jobs |-> [pc |-> "new", fd |-> None]]
      /\ installed = conf
  BY DEF IS!Init
<1>2. \A j \in IS!Jobs : job[j] \in FileJob /\ job[j].pc = "new"
  BY <1>1 DEF FileJob
<1>3. job \in [IS!Jobs -> FileJob]
  BY <1>1, <1>2
<1>4. FileTypes
  BY <1>1, <1>2, <1>3 DEF FileTypes, IS!Jobs
<1>5. NameInv /\ WritesAlone /\ ShowsInstalled
  BY <1>1, <1>2 DEF NameInv, WritesAlone, ShowsInstalled, IS!Busy, IS!Jobs, IS!Listed, InstallAssumption
<1>. QED
  BY <1>4, <1>5 DEF FileInv

\* A change begins: an install is received, or a delete removes the first file.
LEMMA FileBegins ==
    ASSUME InstallAssumption, FileInv, NEW j \in IS!Jobs,
           (j \in Installs /\ IS!Receive(j)) \/ (j \in Deletes /\ IS!RemoveJson(j))
    PROVE  FileInv'
<1>0. /\ FileTypes /\ NameInv /\ WritesAlone /\ ShowsInstalled /\ IS!Jobs' = IS!Jobs /\ job[j] \in FileJob
      /\ Installs \subseteq IS!Jobs /\ Deletes \subseteq IS!Jobs /\ Installs \cap Deletes = {}
  BY DEF FileInv, FileTypes, IS!Jobs, InstallAssumption
<1>1. UNCHANGED <<kind, inode, tmp, conf, installed, crashed>> /\ job[j].pc = "new"
  BY DEF IS!Receive, IS!RemoveJson, IS!Starts, IS!diskVars
<1>2. PICK p \in {"open", "refused", "conf"} :
        /\ job' = [job EXCEPT ![j].pc = p]
        /\ p = "refused" => crossed' = crossed
        /\ p # "refused" => crossed' = (crossed \/ \E k \in IS!Jobs : IS!Busy(k))
        /\ j \in Installs => p # "conf" /\ json' = json
        /\ j \in Deletes => p = "conf" /\ json' = None
  <2>1. CASE j \in Installs /\ IS!Receive(j)
    <3>1. j \notin Deletes /\ json' = json
      BY <1>0, <2>1 DEF IS!Receive, IS!diskVars
    <3>2. \/ IS!Starts(j, "open")
          \/ job' = [job EXCEPT ![j].pc = "refused"] /\ crossed' = crossed
      BY <2>1 DEF IS!Receive
    <3>3. CASE IS!Starts(j, "open")
      <4>1. job' = [job EXCEPT ![j].pc = "open"] /\ crossed' = (crossed \/ \E k \in IS!Jobs : IS!Busy(k))
        BY <3>3, Zenon DEF IS!Starts
      <4>. QED
        BY <3>1, <4>1
    <3>4. CASE job' = [job EXCEPT ![j].pc = "refused"] /\ crossed' = crossed
      BY <3>1, <3>4
    <3>. QED
      BY <3>2, <3>3, <3>4
  <2>2. CASE j \in Deletes /\ IS!RemoveJson(j)
    <3>1. job' = [job EXCEPT ![j].pc = "conf"] /\ crossed' = (crossed \/ \E k \in IS!Jobs : IS!Busy(k))
          /\ json' = None
      BY <2>2, Zenon DEF IS!RemoveJson, IS!Starts
    <3>2. j \notin Installs
      BY <1>0, <2>2
    <3>. QED
      BY <3>1, <3>2
  <2>. QED
    BY <2>1, <2>2
<1>. DEFINE x == [job[j] EXCEPT !.pc = p]
<1>3. x \in FileJob /\ x.pc = p /\ job' = [job EXCEPT ![j] = x]
  BY <1>0, <1>2 DEF FileJob, FileTypes
<1>. HIDE DEF x
<1>4. job'[j] = x /\ \A k \in IS!Jobs \ {j} : job'[k] = job[k]
  BY <1>0, <1>3 DEF FileTypes
<1>5. job' \in [IS!Jobs -> FileJob]
  BY <1>0, <1>3 DEF FileTypes
<1>6. FileTypes'
  <2>1. \A i \in Installs : job'[i].pc # "conf"
    BY <1>0, <1>2, <1>3, <1>4 DEF FileTypes
  <2>2. \A d \in Deletes : job'[d].pc \notin {"open", "write", "rename"}
    BY <1>0, <1>2, <1>3, <1>4 DEF FileTypes
  <2>3. json' \in Installs \cup {None}
    BY <1>0, <1>2 DEF FileTypes, IS!Jobs
  <2>. QED
    BY <1>0, <1>1, <1>5, <2>1, <2>2, <2>3 DEF FileTypes
<1>7. NameInv'
  <2>1. json' = json \/ json' = None
    BY <1>0, <1>2 DEF IS!Jobs
  <2>2. \A n \in Installs : n = json \/ n = tmp => n # j
    BY <1>0, <1>1 DEF NameInv
  <2>3. \A n \in Installs : n = json' \/ n = tmp' => n = json \/ n = tmp
    BY <1>1, <2>1 DEF InstallAssumption
  <2>. QED
    BY <1>0, <1>1, <1>4, <2>1, <2>2, <2>3 DEF NameInv
<1>8. WritesAlone'
  <2>. SUFFICES ASSUME ~crossed' PROVE WritesAlone'
    BY DEF WritesAlone
  <2>1. ~crossed
    BY <1>2
  <2>2. \A i \in Installs : job'[i].pc \in {"write", "rename"} => i # j /\ job'[i] = job[i]
    BY <1>0, <1>2, <1>3, <1>4
  <2>3. \A k \in IS!Jobs \ {j} : IS!Busy(k)' => IS!Busy(k)
    BY <1>4 DEF IS!Busy
  <2>4. IS!Busy(j)' => p # "refused"
    BY <1>3, <1>4 DEF IS!Busy
  <2>5. \A k, m \in IS!Jobs : IS!Busy(k)' /\ IS!Busy(m)' => k = m
    BY <1>0, <1>2, <2>1, <2>3, <2>4 DEF WritesAlone
  <2>6. \A i \in Installs : /\ job'[i].pc \in {"write", "rename"} => tmp' # None /\ job'[i].fd = tmp'
                            /\ job'[i].pc = "rename" => inode'[tmp'] = i
    BY <1>0, <1>1, <2>1, <2>2 DEF WritesAlone
  <2>. QED
    BY <1>0, <2>5, <2>6 DEF WritesAlone
<1>9. ShowsInstalled'
  <2>. SUFFICES ASSUME ~crossed', DeletesFinish' PROVE ShowsInstalled'
    BY DEF ShowsInstalled
  <2>1. ~crossed /\ DeletesFinish
    <3>1. ~crossed
      BY <1>2
    <3>2. \A d \in Deletes : d = j \/ job'[d] = job[d]
      BY <1>0, <1>4
    <3>3. DeletesFinish
      BY <1>1, <3>2 DEF DeletesFinish
    <3>. QED
      BY <3>1, <3>3
  <2>2. /\ (\A d \in Deletes : job[d].pc # "conf") => IS!Listed = installed
        /\ (\E d \in Deletes : job[d].pc = "conf") => json = None
    BY <1>0, <2>1 DEF ShowsInstalled
  <2>3. CASE j \in Deletes
    <3>1. json' = None /\ job'[j].pc = "conf"
      BY <1>2, <1>3, <1>4, <2>3
    <3>. QED
      BY <2>3, <3>1 DEF ShowsInstalled
  <2>4. CASE j \in Installs
    <3>1. \A d \in Deletes : job'[d] = job[d]
      BY <1>0, <1>4, <2>4
    <3>2. json' = json /\ IS!Listed' = IS!Listed
      BY <1>1, <1>2, <2>4 DEF IS!Listed, IS!Holds
    <3>. QED
      BY <1>1, <2>2, <3>1, <3>2 DEF ShowsInstalled
  <2>. QED
    BY <2>3, <2>4 DEF IS!Jobs
<1>. QED
  BY <1>6, <1>7, <1>8, <1>9 DEF FileInv

\* An install opens the temporary file, fills it and renames it.
LEMMA FileGoesOn ==
    ASSUME InstallAssumption, FileInv, NEW j \in Installs,
           IS!Open(j) \/ IS!Write(j) \/ IS!WriteFails(j) \/ IS!Rename(j)
    PROVE  FileInv'
<1>0. /\ FileTypes /\ NameInv /\ WritesAlone /\ ShowsInstalled /\ IS!Jobs' = IS!Jobs /\ job[j] \in FileJob
      /\ Installs \subseteq IS!Jobs /\ Deletes \subseteq IS!Jobs /\ Installs \cap Deletes = {} /\ j \in IS!Jobs
      /\ None \notin Installs
  BY DEF FileInv, FileTypes, IS!Jobs, InstallAssumption
<1>1. UNCHANGED <<kind, conf, crossed, crashed>> /\ IS!Busy(j) /\ job[j].pc \in {"open", "write", "rename"}
  BY DEF IS!Open, IS!Write, IS!WriteFails, IS!Rename, IS!diskVars, IS!Busy
\* What is left to show when the job goes on as x.
<1>2. ASSUME NEW x \in FileJob, job' = [job EXCEPT ![j] = x], x.pc \in {"write", "rename", "done", "failed"},
             json' \in Installs \cup {None}, tmp' \in Installs \cup {None}, inode' \in [Installs -> Installs \cup {None, Torn}],
             json' # None => json' # tmp',
             \A n \in Installs : n = json' \/ n = tmp' => n = json \/ n = tmp \/ n = j,
             ~crossed => /\ x.pc \in {"write", "rename"} => tmp' # None /\ x.fd = tmp'
                         /\ x.pc = "rename" => inode'[tmp'] = j,
             ~crossed => \/ IS!Listed' = IS!Listed /\ installed' = installed
                         \/ IS!Listed' = installed'
      PROVE  FileInv'
  <2>1. job'[j] = x /\ \A k \in IS!Jobs \ {j} : job'[k] = job[k]
    BY <1>0, <1>2 DEF FileTypes
  <2>2. job' \in [IS!Jobs -> FileJob]
    BY <1>0, <1>2 DEF FileTypes
  <2>3. \A d \in Deletes : job'[d] = job[d]
    BY <1>0, <2>1
  <2>4. FileTypes'
    <3>1. \A i \in Installs : job'[i].pc # "conf"
      BY <1>0, <1>2, <2>1 DEF FileTypes
    <3>. QED
      BY <1>0, <1>1, <1>2, <2>2, <2>3, <3>1 DEF FileTypes
  <2>5. NameInv'
    BY <1>0, <1>2, <2>1 DEF NameInv
  <2>6. ASSUME ~crossed PROVE \A k \in IS!Jobs \ {j} : ~IS!Busy(k) /\ ~IS!Busy(k)'
    <3>1. \A k \in IS!Jobs \ {j} : ~IS!Busy(k)
      BY <1>0, <1>1, <2>6 DEF WritesAlone
    <3>. QED
      BY <2>1, <3>1 DEF IS!Busy
  <2>7. WritesAlone'
    <3>. SUFFICES ASSUME ~crossed
                  PROVE  /\ \A k, m \in IS!Jobs : IS!Busy(k)' /\ IS!Busy(m)' => k = m
                         /\ \A i \in Installs : /\ job'[i].pc \in {"write", "rename"} => tmp' # None /\ job'[i].fd = tmp'
                                                /\ job'[i].pc = "rename" => inode'[tmp'] = i
      BY <1>0, <1>1 DEF WritesAlone
    <3>1. \A i \in Installs \ {j} : job'[i].pc \notin {"write", "rename"}
      BY <1>0, <2>6 DEF IS!Busy
    <3>. QED
      BY <1>2, <2>1, <2>6, <3>1
  <2>8. ShowsInstalled'
    <3>. SUFFICES ASSUME ~crossed, DeletesFinish' PROVE IS!Listed' = installed' /\ \A d \in Deletes : job'[d].pc # "conf"
      BY <1>1 DEF ShowsInstalled
    <3>1. \A d \in Deletes : job[d].pc # "conf"
      BY <1>0, <2>6 DEF IS!Busy
    <3>2. DeletesFinish
      BY <2>3 DEF DeletesFinish
    <3>. QED
      BY <1>0, <1>2, <2>3, <3>1, <3>2 DEF ShowsInstalled
  <2>. QED
    BY <2>4, <2>5, <2>7, <2>8 DEF FileInv
<1>3. CASE IS!Open(j)
  <2>. DEFINE n == IF tmp = None THEN j ELSE tmp
              x == [pc |-> "write", fd |-> n]
  <2>1. /\ job' = [job EXCEPT ![j] = x] /\ tmp' = n /\ inode' = [inode EXCEPT ![n] = Torn]
        /\ json' = json /\ installed' = installed /\ job[j].pc = "open"
    BY <1>3 DEF IS!Open
  <2>2. n \in Installs /\ (tmp # None => n = tmp) /\ (n = tmp \/ n = j)
    BY <1>0 DEF FileTypes
  <2>3. json # n
    BY <1>0, <2>1, <2>2 DEF NameInv, FileTypes
  <2>4. x \in FileJob /\ x.pc = "write" /\ x.fd = n
    BY <2>2 DEF FileJob
  <2>. HIDE DEF n, x
  <2>5. inode' \in [Installs -> Installs \cup {None, Torn}]
    BY <1>0, <2>1 DEF FileTypes
  <2>6. IS!Listed' = IS!Listed
    BY <1>0, <1>1, <2>1, <2>3 DEF IS!Listed, IS!Holds, FileTypes
  <2>7. json' \in Installs \cup {None} /\ tmp' \in Installs \cup {None} /\ (json' # None => json' # tmp')
    BY <1>0, <2>1, <2>2, <2>3 DEF FileTypes
  <2>8. \A m \in Installs : m = json' \/ m = tmp' => m = json \/ m = tmp \/ m = j
    BY <2>1, <2>2
  <2>9. tmp' # None /\ x.fd = tmp'
    BY <1>0, <2>1, <2>2, <2>4
  <2>. QED
    BY <1>2, <2>1, <2>4, <2>5, <2>6, <2>7, <2>8, <2>9
<1>4. CASE IS!Write(j)
  <2>. DEFINE x == [job[j] EXCEPT !.pc = "rename"]
              alone == ~\E k \in Installs \ {j} : job[k].fd = job[j].fd /\ job[k].pc \in {"write", "rename"}
  <2>1. PICK held \in {j, Torn} : inode' = [inode EXCEPT ![job[j].fd] = held] /\ (alone => held = j)
    BY <1>4 DEF IS!Write
  <2>2. job[j].pc = "write" /\ UNCHANGED <<json, tmp, installed>> /\ job' = [job EXCEPT ![j].pc = "rename"]
    BY <1>4 DEF IS!Write
  <2>3. ~crossed => alone
    BY <1>0, <1>1 DEF WritesAlone, IS!Busy
  <2>4. x \in FileJob /\ x.pc = "rename" /\ x.fd = job[j].fd /\ job' = [job EXCEPT ![j] = x]
    BY <1>0, <2>2 DEF FileJob, FileTypes
  <2>. HIDE DEF x, alone
  <2>5. inode' \in [Installs -> Installs \cup {None, Torn}]
    BY <1>0, <2>1 DEF FileTypes
  <2>6. ~crossed => tmp # None /\ job[j].fd = tmp
    BY <1>0, <2>2 DEF WritesAlone
  <2>7. ~crossed => inode'[tmp] = j
    BY <1>0, <2>1, <2>3, <2>6 DEF FileTypes
  <2>8. ~crossed => IS!Listed' = IS!Listed
    BY <1>0, <1>1, <2>1, <2>2, <2>6 DEF IS!Listed, IS!Holds, FileTypes, NameInv
  <2>9. json' \in Installs \cup {None} /\ tmp' \in Installs \cup {None} /\ (json' # None => json' # tmp')
    BY <1>0, <2>2 DEF FileTypes, NameInv
  <2>10. \A m \in Installs : m = json' \/ m = tmp' => m = json \/ m = tmp \/ m = j
    BY <2>2
  <2>11. ~crossed => tmp' # None /\ x.fd = tmp' /\ inode'[tmp'] = j
    BY <2>2, <2>4, <2>6, <2>7
  <2>. QED
    BY <1>2, <2>2, <2>4, <2>5, <2>8, <2>9, <2>10, <2>11
<1>5. CASE IS!WriteFails(j)
  <2>. DEFINE x == [job[j] EXCEPT !.pc = "failed"]
  <2>1. UNCHANGED <<inode, json, tmp, installed>> /\ job' = [job EXCEPT ![j].pc = "failed"]
    BY <1>5 DEF IS!WriteFails, IS!diskVars
  <2>2. x \in FileJob /\ x.pc = "failed" /\ job' = [job EXCEPT ![j] = x]
    BY <1>0, <2>1 DEF FileJob, FileTypes
  <2>. HIDE DEF x
  <2>3. IS!Listed' = IS!Listed
    BY <1>1, <2>1 DEF IS!Listed, IS!Holds
  <2>4. /\ json' \in Installs \cup {None} /\ tmp' \in Installs \cup {None} /\ (json' # None => json' # tmp')
        /\ inode' \in [Installs -> Installs \cup {None, Torn}]
    BY <1>0, <2>1 DEF FileTypes, NameInv
  <2>5. \A m \in Installs : m = json' \/ m = tmp' => m = json \/ m = tmp \/ m = j
    BY <2>1
  <2>. QED
    BY <1>2, <2>1, <2>2, <2>3, <2>4, <2>5
<1>6. CASE IS!Rename(j) /\ tmp = None
  <2>. DEFINE x == [job[j] EXCEPT !.pc = "failed"]
  <2>1. UNCHANGED <<inode, json, tmp, installed>> /\ job' = [job EXCEPT ![j].pc = "failed"]
    BY <1>6 DEF IS!Rename
  <2>2. x \in FileJob /\ x.pc = "failed" /\ job' = [job EXCEPT ![j] = x]
    BY <1>0, <2>1 DEF FileJob, FileTypes
  <2>. HIDE DEF x
  <2>3. IS!Listed' = IS!Listed
    BY <1>1, <2>1 DEF IS!Listed, IS!Holds
  <2>4. /\ json' \in Installs \cup {None} /\ tmp' \in Installs \cup {None} /\ (json' # None => json' # tmp')
        /\ inode' \in [Installs -> Installs \cup {None, Torn}]
    BY <1>0, <2>1 DEF FileTypes, NameInv
  <2>5. \A m \in Installs : m = json' \/ m = tmp' => m = json \/ m = tmp \/ m = j
    BY <2>1
  <2>. QED
    BY <1>2, <2>1, <2>2, <2>3, <2>4, <2>5
<1>7. CASE IS!Rename(j) /\ tmp # None
  <2>. DEFINE x == [job[j] EXCEPT !.pc = "done"]
  <2>1. /\ job' = [job EXCEPT ![j].pc = "done"] /\ json' = tmp /\ tmp' = None /\ installed' = j
        /\ inode' = inode /\ job[j].pc = "rename"
    BY <1>7 DEF IS!Rename
  <2>2. x \in FileJob /\ x.pc = "done" /\ job' = [job EXCEPT ![j] = x]
    BY <1>0, <2>1 DEF FileJob, FileTypes
  <2>. HIDE DEF x
  <2>3. ~crossed => inode[tmp] = j
    BY <1>0, <2>1 DEF WritesAlone
  <2>4. ~crossed => IS!Listed' = installed'
    BY <1>7, <2>1, <2>3 DEF IS!Listed, IS!Holds
  <2>5. /\ json' \in Installs \cup {None} /\ tmp' \in Installs \cup {None} /\ (json' # None => json' # tmp')
        /\ inode' \in [Installs -> Installs \cup {None, Torn}]
    BY <1>0, <2>1 DEF FileTypes
  <2>6. \A m \in Installs : m = json' \/ m = tmp' => m = json \/ m = tmp \/ m = j
    BY <1>0, <2>1
  <2>. QED
    BY <1>2, <2>2, <2>4, <2>5, <2>6
<1>. QED
  BY <1>3, <1>4, <1>5, <1>6, <1>7

\* A delete removes the second file, and is done.
LEMMA FileRemoved ==
    ASSUME InstallAssumption, FileInv, NEW j \in Deletes, IS!RemoveConf(j)
    PROVE  FileInv'
<1>0. /\ FileTypes /\ NameInv /\ WritesAlone /\ ShowsInstalled /\ IS!Jobs' = IS!Jobs /\ job[j] \in FileJob
      /\ Installs \subseteq IS!Jobs /\ Deletes \subseteq IS!Jobs /\ Installs \cap Deletes = {} /\ j \in IS!Jobs
  BY DEF FileInv, FileTypes, IS!Jobs, InstallAssumption
<1>1. /\ UNCHANGED <<kind, inode, json, tmp, crossed, crashed>> /\ installed' = None
      /\ conf' = (IF kind = "theme" THEN None ELSE conf) /\ job' = [job EXCEPT ![j].pc = "done"]
      /\ job[j].pc = "conf"
  BY DEF IS!RemoveConf
<1>2. conf' = None
  BY <1>0, <1>1 DEF FileTypes
<1>. DEFINE x == [job[j] EXCEPT !.pc = "done"]
<1>3. x \in FileJob /\ x.pc = "done" /\ job' = [job EXCEPT ![j] = x]
  BY <1>0, <1>1 DEF FileJob, FileTypes
<1>. HIDE DEF x
<1>4. job'[j] = x /\ (\A k \in IS!Jobs \ {j} : job'[k] = job[k]) /\ \A i \in Installs : job'[i] = job[i]
  BY <1>0, <1>3 DEF FileTypes
<1>5. FileTypes'
  <2>1. job' \in [IS!Jobs -> FileJob]
    BY <1>0, <1>3 DEF FileTypes
  <2>2. \A d \in Deletes : job'[d].pc \notin {"open", "write", "rename"}
    BY <1>0, <1>3, <1>4 DEF FileTypes
  <2>. QED
    BY <1>0, <1>1, <1>2, <1>4, <2>1, <2>2 DEF FileTypes
<1>6. NameInv'
  BY <1>0, <1>1, <1>4 DEF NameInv
<1>7. WritesAlone'
  <2>1. \A k \in IS!Jobs : IS!Busy(k)' => IS!Busy(k)
    BY <1>3, <1>4 DEF IS!Busy
  <2>. QED
    BY <1>0, <1>1, <1>4, <2>1 DEF WritesAlone
<1>8. ShowsInstalled'
  <2>. SUFFICES ASSUME ~crossed, DeletesFinish' PROVE IS!Listed' = installed' /\ \A d \in Deletes : job'[d].pc # "conf"
    BY <1>1 DEF ShowsInstalled
  <2>1. DeletesFinish
    <3>1. \A d \in Deletes : d = j \/ job'[d] = job[d]
      BY <1>0, <1>4
    <3>. QED
      BY <1>1, <3>1 DEF DeletesFinish
  <2>2. json = None
    BY <1>0, <1>1, <2>1 DEF ShowsInstalled
  <2>3. IS!Listed' = installed'
    BY <1>1, <1>2, <2>2 DEF IS!Listed
  <2>4. \A d \in Deletes \ {j} : job'[d].pc # "conf"
    <3>1. IS!Busy(j)
      BY <1>1 DEF IS!Busy
    <3>2. \A d \in Deletes \ {j} : ~IS!Busy(d)
      BY <1>0, <3>1 DEF WritesAlone
    <3>. QED
      BY <1>0, <1>4, <3>2 DEF IS!Busy
  <2>. QED
    BY <1>3, <1>4, <2>3, <2>4
<1>. QED
  BY <1>5, <1>6, <1>7, <1>8 DEF FileInv

\* A restart ends what was under way.
LEMMA FileRestart ==
    ASSUME InstallAssumption, FileInv, IS!Restart
    PROVE  FileInv'
<1>0. /\ FileTypes /\ NameInv /\ WritesAlone /\ ShowsInstalled /\ IS!Jobs' = IS!Jobs
      /\ Installs \subseteq IS!Jobs /\ Deletes \subseteq IS!Jobs
  BY DEF FileInv, IS!Jobs
<1>1. /\ UNCHANGED <<kind, inode, json, tmp, conf, installed, crossed>>
      /\ job' = [j \in IS!Jobs |-> IF IS!Busy(j) THEN [job[j] EXCEPT !.pc = "failed"] ELSE job[j]]
  BY DEF IS!Restart, IS!diskVars
<1>2. \A j \in IS!Jobs : /\ job'[j] \in FileJob /\ ~IS!Busy(j)'
                         /\ job'[j].pc = "failed" \/ job'[j] = job[j]
                         /\ IS!Busy(j) => job'[j].pc = "failed"
  <2>1. TAKE j \in IS!Jobs
  <2>2. job[j] \in FileJob
    BY <1>0 DEF FileTypes
  <2>3. CASE IS!Busy(j)
    <3>1. job'[j] = [job[j] EXCEPT !.pc = "failed"]
      BY <1>1, <2>3
    <3>2. job'[j] \in FileJob /\ job'[j].pc = "failed"
      BY <2>2, <3>1 DEF FileJob
    <3>. QED
      BY <3>2 DEF IS!Busy
  <2>4. CASE ~IS!Busy(j)
    <3>1. job'[j] = job[j]
      BY <1>1, <2>4
    <3>. QED
      BY <2>2, <2>4, <3>1 DEF IS!Busy
  <2>. QED
    BY <2>3, <2>4
<1>3. FileTypes'
  <2>1. job' \in [IS!Jobs -> FileJob]
    BY <1>1, <1>2
  <2>. QED
    BY <1>0, <1>1, <1>2, <2>1 DEF FileTypes
<1>4. NameInv'
  BY <1>0, <1>1, <1>2 DEF NameInv
<1>5. WritesAlone'
  <2>1. \A i \in Installs : job'[i].pc \notin {"write", "rename"}
    BY <1>0, <1>2 DEF IS!Busy
  <2>. QED
    BY <1>0, <1>2, <2>1 DEF WritesAlone
<1>6. ShowsInstalled'
  <2>. SUFFICES ASSUME ~crossed, DeletesFinish' PROVE IS!Listed' = installed' /\ \A d \in Deletes : job'[d].pc # "conf"
    BY <1>1 DEF ShowsInstalled
  <2>1. \A d \in Deletes : job'[d] = job[d] /\ job[d].pc # "conf"
    BY <1>0, <1>2 DEF DeletesFinish, IS!Busy
  <2>2. IS!Listed' = IS!Listed
    BY <1>1 DEF IS!Listed, IS!Holds
  <2>3. DeletesFinish
    BY <2>1 DEF DeletesFinish
  <2>. QED
    BY <1>0, <1>1, <2>1, <2>2, <2>3 DEF ShowsInstalled
<1>. QED
  BY <1>3, <1>4, <1>5, <1>6 DEF FileInv

\* For any number of installs and deletes of an id: a list shows what the last one that
\* reported success left, and never part of a document, also after a crash or a full disk;
\* except while a delete is between its two files, after two changes were under way at
\* once, or after a delete was cut short (themes.rs write_theme, delete_theme; locales.rs).
THEOREM InstalledIsListed ==
    ASSUME InstallAssumption
    PROVE  IS!Spec => [](IS!TypeOK /\ IS!ListsWhatWasInstalled)
<1>1. IS!Init => FileInv
  BY FileInit
<1>2. FileInv /\ [IS!Next]_IS!vars => FileInv'
  <2>. SUFFICES ASSUME FileInv, [IS!Next]_IS!vars PROVE FileInv'
    OBVIOUS
  <2>1. ASSUME NEW i \in Installs,
               IS!Receive(i) \/ IS!Open(i) \/ IS!Write(i) \/ IS!WriteFails(i) \/ IS!Rename(i)
        PROVE  FileInv'
    <3>1. i \in IS!Jobs
      BY DEF IS!Jobs
    <3>. QED
      BY <2>1, <3>1, FileBegins, FileGoesOn
  <2>2. ASSUME NEW d \in Deletes, IS!RemoveJson(d) \/ IS!RemoveConf(d) PROVE FileInv'
    <3>1. d \in IS!Jobs
      BY DEF IS!Jobs
    <3>. QED
      BY <2>2, <3>1, FileBegins, FileRemoved
  <2>3. CASE IS!Restart
    BY <2>3, FileRestart
  <2>4. CASE UNCHANGED IS!vars
    <3>1. UNCHANGED <<kind, inode, json, tmp, conf, job, installed, crossed, crashed>> /\ IS!Jobs' = IS!Jobs
      BY <2>4 DEF IS!vars, IS!diskVars, IS!Jobs
    <3>. QED
      BY <3>1 DEF FileInv, FileTypes, NameInv, WritesAlone, ShowsInstalled, DeletesFinish, IS!Busy,
                  IS!Listed, IS!Holds
  <2>. QED
    BY <2>1, <2>2, <2>3, <2>4 DEF IS!Next
<1>3. FileInv => IS!TypeOK /\ IS!ListsWhatWasInstalled
  <2>. SUFFICES ASSUME FileInv PROVE IS!TypeOK /\ IS!ListsWhatWasInstalled
    OBVIOUS
  <2>1. IS!TypeOK
    BY DEF FileInv, FileTypes, NameInv, IS!TypeOK
  <2>2. IS!ListsWhatWasInstalled
    BY DEF FileInv, ShowsInstalled, DeletesFinish, IS!ListsWhatWasInstalled
  <2>. QED
    BY <2>1, <2>2
<1>. QED
  BY <1>1, <1>2, <1>3, PTL DEF IS!Spec

-----------------------------------------------------------------------------
(* Reading a part of a file.                                               *)

CONSTANTS MaxSize, MaxDownload
VARIABLES size, header, stage, len, answer

RR == INSTANCE RangeRead

RangeInv ==
    /\ size \in 0 .. MaxSize /\ len \in Nat /\ header \in RR!Headers
    /\ stage # "answered" => answer = RR!NoAnswer
    /\ RR!PartsAreExact

\* A range resolved against n bytes: its positions are those the header asks for, there is
\* at least one, and when it cannot be satisfied none is asked for (resolve_byte_range).
LEMMA ResolvedIsAsked ==
    ASSUME MaxSize \in Nat, NEW h \in RR!Headers, NEW n \in Nat
    PROVE  /\ RR!Resolve(h, n).kind = "partial" =>
                /\ RR!Resolve(h, n).start \in Nat /\ RR!Resolve(h, n).end \in Nat
                /\ RR!Resolve(h, n).start <= RR!Resolve(h, n).end
                /\ RR!Resolve(h, n).start .. RR!Resolve(h, n).end = RR!Asked(h, n)
           /\ RR!Resolve(h, n).kind = "unsatisfiable" => RR!Asked(h, n) = {}
<1>1. CASE n = 0 \/ h.kind = "none"
  BY <1>1 DEF RR!Resolve, RR!Full
<1>2. CASE n > 0 /\ h.kind = "suffix"
  <2>1. h.from \in Nat
    BY <1>2 DEF RR!Headers, RR!Positions
  <2>2. RR!Asked(h, n) = {p \in 0 .. n - 1 : p >= n - h.from}
    BY <1>2 DEF RR!Asked
  <2>3. CASE h.from = 0
    <3>1. RR!Asked(h, n) = {}
      BY <2>2, <2>3
    <3>2. RR!Resolve(h, n).kind = "unsatisfiable"
      BY <1>2, <2>3 DEF RR!Resolve, RR!NotSatisfiable, RR!Full
    <3>. QED
      BY <3>1, <3>2
  <2>4. CASE h.from # 0
    <3>. DEFINE a == IF n > h.from THEN n - h.from ELSE 0
    <3>1. RR!Resolve(h, n) = RR!Partial(a, n - 1)
      BY <1>2, <2>4 DEF RR!Resolve
    <3>2. a \in Nat /\ n - 1 \in Nat /\ a <= n - 1 /\ a .. n - 1 = RR!Asked(h, n)
      BY <1>2, <2>1, <2>2, <2>4
    <3>. HIDE DEF a
    <3>. QED
      BY <3>1, <3>2 DEF RR!Partial
  <2>. QED
    BY <2>3, <2>4
<1>3. CASE n > 0 /\ h.kind = "range"
  <2>1. h.from \in Nat /\ h.to \in Nat \cup {RR!Open} /\ RR!Open \notin Nat
    BY <1>3 DEF RR!Headers, RR!Positions, RR!Open
  <2>2. RR!Asked(h, n) = {p \in 0 .. n - 1 : p >= h.from /\ (h.to = RR!Open \/ p <= h.to)}
    BY <1>3 DEF RR!Asked
  <2>. DEFINE b == IF h.to = RR!Open THEN n - 1 ELSE RR!Less(h.to, n - 1)
  <2>3. b \in Nat /\ b <= n - 1 /\ \A p \in 0 .. n - 1 : p <= b <=> (h.to = RR!Open \/ p <= h.to)
    BY <1>3, <2>1 DEF RR!Less
  <2>4. RR!Resolve(h, n) = IF h.from >= n \/ b < h.from THEN RR!NotSatisfiable ELSE RR!Partial(h.from, b)
    BY <1>3 DEF RR!Resolve
  <2>. HIDE DEF b
  <2>5. CASE h.from >= n \/ b < h.from
    <3>1. RR!Asked(h, n) = {}
      BY <2>1, <2>2, <2>3, <2>5
    <3>2. RR!Resolve(h, n).kind = "unsatisfiable"
      BY <2>4, <2>5 DEF RR!NotSatisfiable, RR!Full
    <3>. QED
      BY <3>1, <3>2
  <2>6. CASE ~(h.from >= n \/ b < h.from)
    <3>1. h.from .. b = RR!Asked(h, n) /\ h.from <= b
      BY <2>1, <2>2, <2>3, <2>6
    <3>. QED
      BY <2>1, <2>3, <2>4, <2>6, <3>1 DEF RR!Partial
  <2>. QED
    BY <2>5, <2>6
<1>4. n = 0 \/ h.kind \in {"none", "suffix", "range"}
  BY DEF RR!Headers
<1>. QED
  BY <1>1, <1>2, <1>3, <1>4

\* For a file of any size that grows and shrinks while it is read: a part is exactly what
\* was asked of a file of the size that the answer names, and as long as promised
\* (workspace_raw, resolve_byte_range).
THEOREM PartsAreAsked ==
    ASSUME MaxSize \in Nat
    PROVE  RR!Spec => []RR!PartsAreExact
<1>1. RR!Init => RangeInv
  BY DEF RR!Init, RangeInv, RR!PartsAreExact, RR!NoAnswer, RR!Answer
<1>2. ASSUME RangeInv, RR!Stat PROVE RangeInv'
  <2>1. /\ UNCHANGED <<size, header>> /\ len' = size /\ size \in Nat /\ stage = "asked" /\ answer = RR!NoAnswer
        /\ answer' \in {RR!NoAnswer, RR!Answer("error", {}, 0)}
        /\ stage' # "answered" => answer' = answer
    BY <1>2 DEF RR!Stat, RangeInv
  <2>. QED
    BY <1>2, <2>1 DEF RangeInv, RR!PartsAreExact, RR!NoAnswer, RR!Answer
<1>3. ASSUME RangeInv, RR!Read PROVE RangeInv'
  <2>. DEFINE r == RR!Resolve(header, len)
  <2>0. UNCHANGED <<size, header, len>> /\ stage' = "answered" /\ header \in RR!Headers /\ len \in Nat /\ size \in Int
    BY <1>3 DEF RR!Read, RangeInv
  <2>1. /\ r.kind = "partial" =>
             /\ r.start \in Nat /\ r.end \in Nat /\ r.start <= r.end
             /\ r.start .. r.end = RR!Asked(header, len)
        /\ r.kind = "unsatisfiable" => RR!Asked(header, len) = {}
    BY <2>0, ResolvedIsAsked
  <2>2. answer' = CASE r.kind = "partial" /\ r.end < size ->
                          RR!Answer("partial", r.start .. r.end, r.end - r.start + 1)
                    [] r.kind = "partial" /\ r.end >= size -> RR!Answer("error", {}, 0)
                    [] r.kind = "unsatisfiable" -> RR!Answer("unsatisfiable", {}, 0)
                    [] r.kind = "full" ->
                          RR!Answer("full", IF len = 0 THEN {} ELSE 0 .. size - 1, len)
    BY <1>3 DEF RR!Read
  <2>3. r.kind \in {"partial", "unsatisfiable", "full"}
    BY <2>0 DEF RR!Resolve, RR!Full, RR!NotSatisfiable, RR!Partial, RR!Headers
  <2>. HIDE DEF r
  <2>4. RR!PartsAreExact'
    <3>1. CASE r.kind = "partial" /\ r.end < size
      <4>1. answer'.kind = "partial" /\ answer'.sent = r.start .. r.end /\ answer'.promised = r.end - r.start + 1
        <5>1. ~(r.end >= size)
          BY <2>0, <2>1, <3>1
        <5>2. answer' = RR!Answer("partial", r.start .. r.end, r.end - r.start + 1)
          BY <2>2, <3>1, <5>1
        <5>. QED
          BY <5>2 DEF RR!Answer
      <4>2. Cardinality(r.start .. r.end) = r.end - r.start + 1
        BY <2>1, <3>1, FS_Interval
      <4>3. RR!Cardinality(r.start .. r.end) = Cardinality(r.start .. r.end)
        BY Zenon DEF RR!Cardinality, Cardinality
      <4>4. RR!Asked(header, len)' = RR!Asked(header, len)
        BY <2>0 DEF RR!Asked
      <4>. QED
        BY <2>0, <2>1, <3>1, <4>1, <4>2, <4>3, <4>4 DEF RR!PartsAreExact
    <3>2. CASE r.kind = "partial" /\ ~(r.end < size)
      <4>1. r.end >= size
        BY <2>0, <2>1, <3>2
      <4>2. answer'.kind = "error"
        BY <2>2, <3>2, <4>1 DEF RR!Answer
      <4>. QED
        BY <4>2 DEF RR!PartsAreExact
    <3>3. CASE r.kind = "unsatisfiable"
      <4>1. answer'.kind = "unsatisfiable"
        BY <2>2, <3>3 DEF RR!Answer
      <4>2. RR!Asked(header, len)' = RR!Asked(header, len)
        BY <2>0 DEF RR!Asked
      <4>. QED
        BY <2>1, <3>3, <4>1, <4>2 DEF RR!PartsAreExact
    <3>4. CASE r.kind = "full"
      <4>1. answer'.kind = "full"
        BY <2>2, <3>4 DEF RR!Answer
      <4>. QED
        BY <4>1 DEF RR!PartsAreExact
    <3>. QED
      BY <2>3, <3>1, <3>2, <3>3, <3>4
  <2>. QED
    BY <1>3, <2>0, <2>4 DEF RangeInv
<1>4. ASSUME RangeInv, RR!Resize PROVE RangeInv'
  BY <1>4 DEF RR!Resize, RangeInv, RR!PartsAreExact, RR!Asked
<1>5. ASSUME RangeInv, UNCHANGED RR!vars PROVE RangeInv'
  BY <1>5 DEF RR!vars, RangeInv, RR!PartsAreExact, RR!Asked
<1>6. RangeInv => RR!PartsAreExact
  BY DEF RangeInv
<1>. QED
  BY <1>1, <1>2, <1>3, <1>4, <1>5, <1>6, PTL DEF RR!Spec, RR!Next

-----------------------------------------------------------------------------
(* Uploads.                                                                *)

CONSTANTS Clears, Cap, Names
VARIABLES uploads, managed, clock

UP == INSTANCE Uploads

Uploaded   == [by : Calls \cup {None}, age : Nat, whole : BOOLEAN]
UploadCall == [pc : {"new", "next", "create", "write", "clear", "done", "refused", "failed", "dropped"},
               into : {"none", "uploads", "workspace"}, names : SUBSET UP!NameSet, name : UP!NameSet, trims : BOOLEAN]

UploadAssumption == UP!NamesAssumption /\ Calls \cap Clears = {} /\ None \notin Calls \cup Uploaded

UploadTypes ==
    /\ uploads \in [UP!NameSet -> Uploaded \cup {None}] /\ files \in [UP!NameSet -> Uploaded \cup {None}]
    /\ managed \in BOOLEAN /\ clock \in Nat
    /\ \A n \in UP!NameSet : /\ uploads[n] # None => uploads[n].age < clock
                             /\ files[n] # None => files[n].age < clock
    /\ call \in [Calls \cup Clears -> UploadCall]

\* Two that are under way at once know it.
UploadsApart == \A c, d \in Calls \cup Clears : c # d /\ UP!Busy(c) /\ UP!Busy(d) => c \in crossed /\ d \in crossed

UploadSteps ==
    /\ \A c \in Calls : call[c].pc # "clear"
    /\ \A d \in Clears : call[d].pc \notin {"next", "create", "write"}
    /\ \A c \in Calls : UP!Busy(c) => call[c].into \in {"uploads", "workspace"}
    /\ \A c \in Calls : call[c].pc = "create" => call[c].into = "workspace"
    /\ \A c \in Calls : call[c].pc = "new" =>
         call[c].names = {} /\ \A n \in UP!NameSet : uploads[n] # None => uploads[n].by # c

\* What a call has written so far is there and its own, and in the directory of uploads
\* nothing else is.
Into(c) == IF call[c].into = "uploads" THEN uploads ELSE files
HasItsFiles(c) ==
    /\ \A n \in call[c].names : Into(c)[n] # None /\ Into(c)[n].by = c /\ Into(c)[n].whole
    /\ call[c].pc = "create" => call[c].name \notin call[c].names
    /\ call[c].pc = "write" => Into(c)[call[c].name] # None /\ Into(c)[call[c].name].by = c
    /\ call[c].into = "uploads" => \A n \in UP!NameSet :
         uploads[n] # None /\ uploads[n].by = c => n \in call[c].names \/ (call[c].pc = "write" /\ n = call[c].name)

UploadInv ==
    /\ UploadTypes /\ UploadsApart /\ UploadSteps
    /\ \A c \in Calls \ crossed : UP!Busy(c) => HasItsFiles(c)

LEMMA UploadInit ==
    ASSUME UploadAssumption, UP!Init
    PROVE  UploadInv
<1>1. 0 \in UP!NameSet
  BY DEF UploadAssumption, UP!NamesAssumption, UP!NameSet
<1>2. UploadTypes
  <2>1. PICK old \in {{}, {0}} :
          uploads = [n \in UP!NameSet |-> IF n \in old THEN [by |-> None, age |-> 0, whole |-> TRUE] ELSE None]
    BY DEF UP!Init
  <2>2. uploads \in [UP!NameSet -> Uploaded \cup {None}]
    BY <2>1 DEF Uploaded
  <2>3. managed \in BOOLEAN /\ clock = 1 /\ files = [n \in UP!NameSet |-> None]
    BY DEF UP!Init
  <2>4. \A n \in UP!NameSet : uploads[n] # None => uploads[n].age < clock
    BY <2>1, <2>3
  <2>5. call \in [Calls \cup Clears -> UploadCall]
    BY <1>1 DEF UP!Init, UploadCall
  <2>. QED
    BY <2>2, <2>3, <2>4, <2>5 DEF UploadTypes
<1>3. \A c \in Calls \cup Clears : call[c].pc = "new" /\ call[c].names = {} /\ ~UP!Busy(c)
  BY DEF UP!Init, UP!Busy
<1>4. \A n \in UP!NameSet : uploads[n] # None => uploads[n].by \notin Calls
  BY DEF UP!Init, UploadAssumption
<1>. QED
  BY <1>2, <1>3, <1>4 DEF UploadInv, UploadsApart, UploadSteps

\* Who begins while others are under way notices, and so do they; while one goes on, those
\* that do not know of another are alone.
LEMMA OthersKnow ==
    ASSUME UploadInv, NEW e \in Calls \cup Clears,
           \A d \in (Calls \cup Clears) \ {e} : call'[d] = call[d],
           (crossed' = crossed /\ UP!Busy(e)) \/ UP!Cross(e)
    PROVE  /\ UploadsApart' /\ crossed \subseteq crossed'
           /\ \A d \in (Calls \cup Clears) \ {e} : UP!Busy(d) => d \in crossed'
<1>1. crossed \subseteq crossed'
  BY DEF UP!Cross
<1>2. ASSUME NEW d \in Calls \cup Clears, d # e, UP!Busy(d)
      PROVE  d \in crossed' /\ e \in crossed'
  <2>1. CASE crossed' = crossed /\ UP!Busy(e)
    BY <1>2, <2>1 DEF UploadInv, UploadsApart
  <2>2. CASE UP!Cross(e)
    BY <1>2, <2>2 DEF UP!Cross, UP!Overlapping
  <2>. QED
    BY <2>1, <2>2
<1>3. \A d \in (Calls \cup Clears) \ {e} : UP!Busy(d)' <=> UP!Busy(d)
  BY DEF UP!Busy
<1>4. UploadsApart'
  <2>. SUFFICES ASSUME NEW c \in Calls \cup Clears, NEW d \in Calls \cup Clears, c # d, UP!Busy(c)', UP!Busy(d)'
                PROVE  c \in crossed' /\ d \in crossed'
    BY DEF UploadsApart
  <2>1. CASE c # e /\ d # e
    BY <1>1, <1>3, <2>1 DEF UploadInv, UploadsApart
  <2>2. CASE c = e
    BY <1>2, <1>3, <2>2
  <2>3. CASE d = e
    BY <1>2, <1>3, <2>3
  <2>. QED
    BY <2>1, <2>2, <2>3
<1>. QED
  BY <1>1, <1>2, <1>4

\* So a step keeps the invariant if it does so for the one who makes it.
LEMMA OneUploads ==
    ASSUME UploadInv, NEW e \in Calls \cup Clears,
           UploadTypes', UploadSteps',
           \A d \in (Calls \cup Clears) \ {e} : call'[d] = call[d],
           (crossed' = crossed /\ UP!Busy(e)) \/ UP!Cross(e),
           e \in Calls \ crossed' /\ UP!Busy(e)' => HasItsFiles(e)'
    PROVE  UploadInv'
<1>1. /\ UploadsApart' /\ crossed \subseteq crossed'
      /\ \A d \in (Calls \cup Clears) \ {e} : UP!Busy(d) => d \in crossed'
  BY OthersKnow
<1>2. \A d \in (Calls \cup Clears) \ {e} : UP!Busy(d)' <=> UP!Busy(d)
  BY DEF UP!Busy
<1>. QED
  BY <1>1, <1>2 DEF UploadInv

\* Steps of an upload.
LEMMA BeginUpload ==
    ASSUME UploadAssumption, UploadInv, NEW c \in Calls, UP!Begin(c)
    PROVE  UploadInv'
<1>0. UploadTypes /\ UploadSteps /\ ~UP!Busy(c) /\ call[c].pc = "new"
  BY DEF UploadInv, UP!Begin, UP!Busy
<1>1. PICK into \in {"uploads", "workspace"}, to \in {"next", "refused"} :
        /\ managed' = (managed \/ (into = "uploads" /\ UP!Present(uploads) = {}))
        /\ call' = [call EXCEPT ![c].pc = to, ![c].into = into,
                      ![c].trims = (into = "uploads" /\ managed')]
  BY DEF UP!Begin
<1>2. UP!Cross(c) /\ UNCHANGED <<uploads, files, clock>>
  BY DEF UP!Begin
<1>3. call[c] \in UploadCall /\ managed' \in BOOLEAN
  BY <1>0, <1>1 DEF UploadTypes
<1>4. /\ call'[c] = [call[c] EXCEPT !.pc = to, !.into = into, !.trims = (into = "uploads" /\ managed')]
      /\ \A d \in (Calls \cup Clears) \ {c} : call'[d] = call[d]
  BY <1>0, <1>1 DEF UploadTypes
<1>5. UploadTypes'
  <2>1. call'[c] \in UploadCall
    BY <1>3, <1>4 DEF UploadCall
  <2>2. call' \in [Calls \cup Clears -> UploadCall]
    BY <1>0, <1>1, <1>4, <2>1 DEF UploadTypes
  <2>. QED
    BY <1>0, <1>2, <1>3, <2>2 DEF UploadTypes
<1>6. call'[c].pc = to /\ call'[c].into = into /\ call'[c].names = call[c].names
  BY <1>3, <1>4 DEF UploadCall
<1>7. UploadSteps'
  <2>1. c \notin Clears /\ \A d \in Clears : call'[d] = call[d]
    BY <1>4 DEF UploadAssumption
  <2>2. \A d \in Calls : d # c => call'[d] = call[d]
    BY <1>4
  <2>. QED
    BY <1>0, <1>2, <1>6, <2>1, <2>2 DEF UploadSteps, UP!Busy
<1>8. HasItsFiles(c)'
  BY <1>0, <1>2, <1>6 DEF HasItsFiles, UploadSteps
<1>. QED
  BY <1>2, <1>4, <1>5, <1>7, <1>8, OneUploads

\* A step of a call that is under way, which puts a file of its own under a name, takes
\* files away, or leaves them.
LEMMA UploadGoesOn ==
    ASSUME UploadAssumption, UploadInv, NEW c \in Calls, UP!Busy(c),
           NEW rec \in UploadCall, call' = [call EXCEPT ![c] = rec],
           rec.pc \notin {"new", "clear"}, rec.pc = "create" => rec.into = "workspace",
           rec.into = call[c].into, crossed' = crossed,
           managed' \in BOOLEAN, clock' \in Nat, clock <= clock',
           uploads' \in [UP!NameSet -> Uploaded \cup {None}], files' \in [UP!NameSet -> Uploaded \cup {None}],
           \A n \in UP!NameSet : uploads'[n] # None =>
             /\ uploads'[n].age < clock'
             /\ uploads'[n].by = c \/ (uploads[n] # None /\ uploads'[n].by = uploads[n].by),
           \A n \in UP!NameSet : files'[n] # None => files'[n].age < clock',
           HasItsFiles(c) /\ rec.pc \in {"next", "create", "write"} => HasItsFiles(c)'
    PROVE  UploadInv'
<1>0. UploadTypes /\ UploadSteps
  BY DEF UploadInv
<1>1. call'[c] = rec /\ \A d \in (Calls \cup Clears) \ {c} : call'[d] = call[d]
  BY <1>0 DEF UploadTypes
<1>2. UploadTypes'
  BY <1>0 DEF UploadTypes
<1>3. UploadSteps'
  <2>1. \A d \in Calls : d # c /\ call[d].pc = "new" =>
          \A n \in UP!NameSet : uploads'[n] # None => uploads'[n].by # d
    BY <1>0 DEF UploadSteps
  <2>2. c \notin Clears /\ \A d \in Clears : call'[d] = call[d]
    BY <1>1 DEF UploadAssumption
  <2>3. \A d \in Calls : d # c => call'[d] = call[d]
    BY <1>1
  <2>. QED
    BY <1>0, <1>1, <2>1, <2>2, <2>3 DEF UploadSteps, UP!Busy
<1>4. c \notin crossed /\ UP!Busy(c)' => HasItsFiles(c)'
  <2>1. UP!Busy(c)' => rec.pc \in {"next", "create", "write"}
    BY <1>1 DEF UP!Busy, UploadCall
  <2>. QED
    BY <2>1 DEF UploadInv
<1>. QED
  BY <1>1, <1>2, <1>3, <1>4, OneUploads

LEMMA UploadCreates ==
    ASSUME UploadAssumption, UploadInv, NEW c \in Calls, UP!CreateNew(c) \/ UP!LookForName(c) \/ UP!Create(c)
    PROVE  UploadInv'
<1>0. /\ UploadTypes /\ UP!Busy(c) /\ call[c] \in UploadCall /\ None \notin Uploaded /\ clock \in Nat
      /\ UP!Entry(c) \in Uploaded /\ UP!Entry(c).by = c /\ UP!Entry(c).age < clock + 1
  BY DEF UploadInv, UploadTypes, UP!CreateNew, UP!LookForName, UP!Create, UP!Busy, UP!Entry, Uploaded, UploadAssumption
<1>1. CASE UP!CreateNew(c)
  <2>1. PICK n \in UP!NameSet : /\ UP!Free(uploads, n)
                                /\ uploads' = [uploads EXCEPT ![n] = UP!Entry(c)]
                                /\ call' = [call EXCEPT ![c].pc = "write", ![c].name = n]
    BY <1>1 DEF UP!CreateNew
  <2>2. /\ clock' = clock + 1 /\ UNCHANGED <<files, managed, crossed>>
        /\ call[c].into = "uploads" /\ call[c].pc = "next"
    BY <1>1 DEF UP!CreateNew
  <2>. DEFINE rec == [call[c] EXCEPT !.pc = "write", !.name = n]
  <2>3. /\ rec \in UploadCall /\ rec.pc = "write" /\ rec.name = n /\ rec.into = "uploads"
        /\ rec.names = call[c].names /\ call' = [call EXCEPT ![c] = rec]
    BY <1>0, <2>1, <2>2 DEF UploadCall, UploadTypes
  <2>. HIDE DEF rec
  <2>4. call'[c] = rec
    BY <1>0, <2>3 DEF UploadTypes
  <2>5. uploads'[n] = UP!Entry(c) /\ \A m \in UP!NameSet : m # n => uploads'[m] = uploads[m]
    BY <1>0, <2>1 DEF UploadTypes
  <2>6. uploads[n] = None
    BY <1>0, <2>1 DEF UP!Free, UP!Present, UploadTypes
  <2>7. HasItsFiles(c) => HasItsFiles(c)'
    <3>. SUFFICES ASSUME HasItsFiles(c) PROVE HasItsFiles(c)'
      OBVIOUS
    <3>1. n \notin call[c].names /\ call[c].names \subseteq UP!NameSet
      BY <1>0, <2>2, <2>6 DEF HasItsFiles, Into, UploadCall
    <3>2. Into(c)' = uploads' /\ Into(c) = uploads
      BY <2>2, <2>3, <2>4 DEF Into
    <3>. QED
      BY <1>0, <2>2, <2>3, <2>4, <2>5, <3>1, <3>2 DEF HasItsFiles
  <2>8. \A m \in UP!NameSet : uploads'[m] # None =>
          /\ uploads'[m].age < clock'
          /\ uploads'[m].by = c \/ (uploads[m] # None /\ uploads'[m].by = uploads[m].by)
    <3>1. \A m \in UP!NameSet : uploads[m] # None => uploads[m].age \in Nat /\ uploads[m].age < clock
      BY <1>0 DEF UploadTypes, Uploaded
    <3>. QED
      BY <1>0, <2>2, <2>5, <3>1
  <2>9. \A m \in UP!NameSet : files'[m] # None => files'[m].age < clock'
    <3>1. \A m \in UP!NameSet : files[m] # None => files[m].age \in Nat /\ files[m].age < clock
      BY <1>0 DEF UploadTypes, Uploaded
    <3>. QED
      BY <1>0, <2>2, <3>1
  <2>10. uploads' \in [UP!NameSet -> Uploaded \cup {None}] /\ files' \in [UP!NameSet -> Uploaded \cup {None}]
         /\ managed' \in BOOLEAN /\ clock' \in Nat /\ clock <= clock'
    BY <1>0, <2>1, <2>2 DEF UploadTypes
  <2>. QED
    BY <1>0, <2>2, <2>3, <2>7, <2>8, <2>9, <2>10, UploadGoesOn
<1>2. CASE UP!LookForName(c)
  <2>1. PICK n \in UP!NameSet : /\ UP!Free(files, n)
                                /\ call' = [call EXCEPT ![c].pc = "create", ![c].name = n]
    BY <1>2 DEF UP!LookForName
  <2>2. UNCHANGED <<uploads, files, managed, clock, crossed>> /\ call[c].into = "workspace" /\ call[c].pc = "next"
    BY <1>2 DEF UP!LookForName, UP!dirVars
  <2>. DEFINE rec == [call[c] EXCEPT !.pc = "create", !.name = n]
  <2>3. /\ rec \in UploadCall /\ rec.pc = "create" /\ rec.name = n /\ rec.into = "workspace"
        /\ rec.names = call[c].names /\ call' = [call EXCEPT ![c] = rec]
    BY <1>0, <2>1, <2>2 DEF UploadCall, UploadTypes
  <2>. HIDE DEF rec
  <2>4. call'[c] = rec
    BY <1>0, <2>3 DEF UploadTypes
  <2>5. files[n] = None
    BY <1>0, <2>1 DEF UP!Free, UP!Present, UploadTypes
  <2>6. HasItsFiles(c) => HasItsFiles(c)'
    <3>. SUFFICES ASSUME HasItsFiles(c) PROVE HasItsFiles(c)'
      OBVIOUS
    <3>1. Into(c)' = files /\ Into(c) = files
      BY <2>2, <2>3, <2>4 DEF Into
    <3>. QED
      BY <2>2, <2>3, <2>4, <2>5, <3>1 DEF HasItsFiles
  <2>7. /\ uploads' \in [UP!NameSet -> Uploaded \cup {None}] /\ files' \in [UP!NameSet -> Uploaded \cup {None}]
        /\ managed' \in BOOLEAN /\ clock' \in Nat /\ clock <= clock'
        /\ \A m \in UP!NameSet : uploads'[m] # None =>
             /\ uploads'[m].age < clock'
             /\ uploads'[m].by = c \/ (uploads[m] # None /\ uploads'[m].by = uploads[m].by)
        /\ \A m \in UP!NameSet : files'[m] # None => files'[m].age < clock'
    BY <1>0, <2>2 DEF UploadTypes
  <2>. QED
    BY <1>0, <2>2, <2>3, <2>6, <2>7, UploadGoesOn
<1>3. CASE UP!Create(c)
  <2>1. /\ files' = [files EXCEPT ![call[c].name] = UP!Entry(c)] /\ clock' = clock + 1
        /\ call' = [call EXCEPT ![c].pc = "write"] /\ UNCHANGED <<uploads, managed, crossed>>
        /\ call[c].pc = "create"
    BY <1>3 DEF UP!Create, UP!To
  <2>2. call[c].into = "workspace"
    BY <2>1 DEF UploadInv, UploadSteps
  <2>. DEFINE rec == [call[c] EXCEPT !.pc = "write"]
              n == call[c].name
  <2>3. /\ rec \in UploadCall /\ rec.pc = "write" /\ rec.name = n /\ rec.into = "workspace"
        /\ rec.names = call[c].names /\ call' = [call EXCEPT ![c] = rec] /\ n \in UP!NameSet
    BY <1>0, <2>1, <2>2 DEF UploadCall, UploadTypes
  <2>. HIDE DEF rec
  <2>4. call'[c] = rec
    BY <1>0, <2>3 DEF UploadTypes
  <2>5. files'[n] = UP!Entry(c) /\ \A m \in UP!NameSet : m # n => files'[m] = files[m]
    BY <1>0, <2>1, <2>3 DEF UploadTypes
  <2>6. HasItsFiles(c) => HasItsFiles(c)'
    <3>. SUFFICES ASSUME HasItsFiles(c) PROVE HasItsFiles(c)'
      OBVIOUS
    <3>1. n \notin call[c].names /\ call[c].names \subseteq UP!NameSet
      BY <1>0, <2>1 DEF HasItsFiles, UploadCall
    <3>2. Into(c)' = files' /\ Into(c) = files
      BY <2>2, <2>3, <2>4 DEF Into
    <3>. QED
      BY <1>0, <2>2, <2>3, <2>4, <2>5, <3>1, <3>2 DEF HasItsFiles
  <2>7. /\ uploads' \in [UP!NameSet -> Uploaded \cup {None}] /\ files' \in [UP!NameSet -> Uploaded \cup {None}]
        /\ managed' \in BOOLEAN /\ clock' \in Nat /\ clock <= clock'
    BY <1>0, <2>1, <2>3 DEF UploadTypes
  <2>8. \A m \in UP!NameSet : /\ uploads[m] # None => uploads[m].age \in Nat /\ uploads[m].age < clock
                              /\ files[m] # None => files[m].age \in Nat /\ files[m].age < clock
    BY <1>0 DEF UploadTypes, Uploaded
  <2>9. /\ \A m \in UP!NameSet : uploads'[m] # None =>
             /\ uploads'[m].age < clock'
             /\ uploads'[m].by = c \/ (uploads[m] # None /\ uploads'[m].by = uploads[m].by)
        /\ \A m \in UP!NameSet : files'[m] # None => files'[m].age < clock'
    BY <1>0, <2>1, <2>5, <2>8
  <2>. HIDE DEF n
  <2>10. rec.into = call[c].into /\ crossed' = crossed
    BY <2>1, <2>2, <2>3
  <2>. QED
    BY <1>0, <2>3, <2>6, <2>7, <2>9, <2>10, UploadGoesOn
<1>. QED
  BY <1>1, <1>2, <1>3

\* A directory from which names are taken, and one of which a file becomes whole.
LEMMA FilesLeave ==
    ASSUME NEW dir \in [UP!NameSet -> Uploaded \cup {None}], NEW ns
    PROVE  /\ UP!Without(dir, ns) \in [UP!NameSet -> Uploaded \cup {None}]
           /\ \A n \in UP!NameSet : UP!Without(dir, ns)[n] = IF n \in ns THEN None ELSE dir[n]
  BY DEF UP!Without

LEMMA FilesFill ==
    ASSUME None \notin Uploaded, NEW dir \in [UP!NameSet -> Uploaded \cup {None}], NEW n \in UP!NameSet
    PROVE  /\ UP!Filled(dir, n) \in [UP!NameSet -> Uploaded \cup {None}]
           /\ \A m \in UP!NameSet : m # n => UP!Filled(dir, n)[m] = dir[m]
           /\ dir[n] = None => UP!Filled(dir, n)[n] = None
           /\ dir[n] # None => /\ UP!Filled(dir, n)[n] # None /\ UP!Filled(dir, n)[n].whole
                               /\ UP!Filled(dir, n)[n].by = dir[n].by /\ UP!Filled(dir, n)[n].age = dir[n].age
<1>1. CASE dir[n] = None
  BY <1>1 DEF UP!Filled
<1>2. CASE dir[n] # None
  <2>1. dir[n] \in Uploaded
    BY <1>2
  <2>2. UP!Filled(dir, n) = [dir EXCEPT ![n] = [dir[n] EXCEPT !.whole = TRUE]]
    BY <1>2 DEF UP!Filled
  <2>3. [dir[n] EXCEPT !.whole = TRUE] \in Uploaded
    BY <2>1 DEF Uploaded
  <2>4. UP!Filled(dir, n)[n] = [dir[n] EXCEPT !.whole = TRUE] /\ UP!Filled(dir, n)[n] # None
    BY <2>2, <2>3
  <2>5. /\ UP!Filled(dir, n)[n].whole
        /\ UP!Filled(dir, n)[n].by = dir[n].by /\ UP!Filled(dir, n)[n].age = dir[n].age
    BY <2>1, <2>4 DEF Uploaded
  <2>. QED
    BY <1>2, <2>2, <2>3, <2>4, <2>5
<1>. QED
  BY <1>1, <1>2

\* Files that go or become whole are nobody else's, and as old as they were.
LEMMA UploadWrites ==
    ASSUME UploadAssumption, UploadInv, NEW c \in Calls, UP!Write(c)
    PROVE  UploadInv'
<1>0. /\ UploadTypes /\ UP!Busy(c) /\ call[c] \in UploadCall /\ call[c].pc = "write" /\ None \notin Uploaded
      /\ call[c].into \in {"uploads", "workspace"}
  <2>1. UploadTypes /\ UploadSteps /\ call[c].pc = "write"
    BY DEF UploadInv, UP!Write
  <2>. QED
    BY <2>1 DEF UploadTypes, UploadSteps, UP!Busy, UploadAssumption
<1>. DEFINE n == call[c].name
            rec == [call[c] EXCEPT !.pc = "next", !.names = @ \cup {n}]
<1>1. /\ IF call[c].into = "uploads" THEN uploads' = UP!Filled(uploads, n) /\ UNCHANGED files
                                     ELSE files' = UP!Filled(files, n) /\ UNCHANGED uploads
      /\ UNCHANGED <<managed, clock, crossed>> /\ call' = [call EXCEPT ![c] = rec]
  BY <1>0 DEF UP!Write, UploadTypes
<1>2. /\ rec \in UploadCall /\ rec.pc = "next" /\ rec.into = call[c].into
      /\ rec.names = call[c].names \cup {n} /\ n \in UP!NameSet /\ call[c].names \subseteq UP!NameSet
  BY <1>0 DEF UploadCall
<1>. HIDE DEF n, rec
<1>3. call'[c] = rec
  BY <1>0, <1>1 DEF UploadTypes
<1>4. /\ uploads \in [UP!NameSet -> Uploaded \cup {None}] /\ files \in [UP!NameSet -> Uploaded \cup {None}]
      /\ managed \in BOOLEAN /\ clock \in Nat
      /\ \A m \in UP!NameSet : /\ uploads[m] # None => uploads[m].age < clock
                               /\ files[m] # None => files[m].age < clock
  BY <1>0 DEF UploadTypes
<1>5. /\ uploads' \in [UP!NameSet -> Uploaded \cup {None}] /\ files' \in [UP!NameSet -> Uploaded \cup {None}]
      /\ \A m \in UP!NameSet : uploads'[m] # None =>
           uploads[m] # None /\ uploads'[m].age = uploads[m].age /\ uploads'[m].by = uploads[m].by
      /\ \A m \in UP!NameSet : files'[m] # None => files[m] # None /\ files'[m].age = files[m].age
  <2>1. ASSUME NEW dir \in [UP!NameSet -> Uploaded \cup {None}]
        PROVE  /\ UP!Filled(dir, n) \in [UP!NameSet -> Uploaded \cup {None}]
               /\ \A m \in UP!NameSet : UP!Filled(dir, n)[m] # None =>
                    dir[m] # None /\ UP!Filled(dir, n)[m].age = dir[m].age /\ UP!Filled(dir, n)[m].by = dir[m].by
    BY <1>0, <1>2, FilesFill
  <2>2. CASE call[c].into = "uploads"
    BY <1>1, <1>4, <2>1, <2>2
  <2>3. CASE call[c].into # "uploads"
    BY <1>1, <1>4, <2>1, <2>3
  <2>. QED
    BY <2>2, <2>3
<1>6. HasItsFiles(c) => HasItsFiles(c)'
  <2>. SUFFICES ASSUME HasItsFiles(c) PROVE HasItsFiles(c)'
    OBVIOUS
  <2>1. Into(c)' = UP!Filled(Into(c), n) /\ Into(c) \in [UP!NameSet -> Uploaded \cup {None}]
    BY <1>1, <1>2, <1>3, <1>4 DEF Into
  <2>2. Into(c)[n] # None /\ Into(c)[n].by = c
    BY <1>0 DEF HasItsFiles, n
  <2>3. \A m \in rec.names : Into(c)'[m] # None /\ Into(c)'[m].by = c /\ Into(c)'[m].whole
    <3>1. \A m \in call[c].names : Into(c)[m] # None /\ Into(c)[m].by = c /\ Into(c)[m].whole
      BY DEF HasItsFiles
    <3>2. ASSUME NEW m \in UP!NameSet, m # n PROVE UP!Filled(Into(c), n)[m] = Into(c)[m]
      BY <1>0, <1>2, <2>1, <3>2, FilesFill
    <3>3. /\ UP!Filled(Into(c), n)[n] # None /\ UP!Filled(Into(c), n)[n].by = c
          /\ UP!Filled(Into(c), n)[n].whole
      BY <1>0, <1>2, <2>1, <2>2, FilesFill
    <3>. QED
      BY <1>2, <2>1, <3>1, <3>2, <3>3
  <2>4. call[c].into = "uploads" =>
          \A m \in UP!NameSet : uploads'[m] # None /\ uploads'[m].by = c => m \in rec.names
    BY <1>0, <1>2, <1>5 DEF HasItsFiles, n
  <2>. QED
    BY <1>2, <1>3, <2>3, <2>4 DEF HasItsFiles
<1>7. /\ managed' \in BOOLEAN /\ clock' \in Nat /\ clock <= clock' /\ crossed' = crossed
      /\ \A m \in UP!NameSet : uploads'[m] # None =>
           /\ uploads'[m].age < clock'
           /\ uploads'[m].by = c \/ (uploads[m] # None /\ uploads'[m].by = uploads[m].by)
      /\ \A m \in UP!NameSet : files'[m] # None => files'[m].age < clock'
  BY <1>1, <1>4, <1>5
<1>. QED
  BY <1>0, <1>1, <1>2, <1>5, <1>6, <1>7, UploadGoesOn

\* The end of an upload, which may take files away.
LEMMA UploadEnds ==
    ASSUME UploadAssumption, UploadInv, NEW c \in Calls,
           UP!Rollback(c) \/ UP!Drop(c) \/ UP!Finish(c) \/ UP!FinishFails(c)
    PROVE  UploadInv'
<1>0. /\ UploadTypes /\ UP!Busy(c) /\ call[c] \in UploadCall
  BY DEF UploadInv, UploadTypes, UP!Rollback, UP!Drop, UP!Finish, UP!FinishFails, UP!Busy
<1>1. PICK p \in {"refused", "dropped", "done", "failed"}, left \in SUBSET UP!NameSet :
        call' = [call EXCEPT ![c] = [call[c] EXCEPT !.pc = p, !.names = left]]
  <2>1. CASE UP!Rollback(c)
    <3>1. /\ call[c].names \subseteq UP!NameSet /\ call[c].name \in UP!NameSet
      BY <1>0 DEF UploadCall
    <3>2. PICK left \in SUBSET UP!NameSet : call' = [call EXCEPT ![c].pc = "refused", ![c].names = left]
      BY <2>1, <3>1 DEF UP!Rollback
    <3>3. call' = [call EXCEPT ![c] = [call[c] EXCEPT !.pc = "refused", !.names = left]]
      BY <1>0, <3>2 DEF UploadTypes
    <3>. QED
      BY <3>3
  <2>2. CASE UP!Drop(c) \/ UP!Finish(c) \/ UP!FinishFails(c)
    <3>1. PICK p \in {"dropped", "done", "failed"} : call' = [call EXCEPT ![c].pc = p]
      BY <2>2 DEF UP!Drop, UP!Finish, UP!FinishFails, UP!To
    <3>2. call' = [call EXCEPT ![c] = [call[c] EXCEPT !.pc = p, !.names = call[c].names]]
      BY <1>0, <3>1 DEF UploadTypes, UploadCall
    <3>. QED
      BY <1>0, <3>2 DEF UploadCall
  <2>. QED
    BY <2>1, <2>2
<1>2. /\ \E ns : uploads' = UP!Without(uploads, ns) \/ uploads' = uploads
      /\ \E ns : files' = UP!Without(files, ns) \/ files' = files
      /\ UNCHANGED <<managed, clock, crossed>>
  BY DEF UP!Rollback, UP!Drop, UP!dirVars, UP!Finish, UP!FinishFails
<1>. DEFINE rec == [call[c] EXCEPT !.pc = p, !.names = left]
<1>3. /\ rec \in UploadCall /\ rec.pc = p /\ rec.into = call[c].into /\ call' = [call EXCEPT ![c] = rec]
  BY <1>0, <1>1 DEF UploadCall
<1>. HIDE DEF rec
<1>4. /\ uploads \in [UP!NameSet -> Uploaded \cup {None}] /\ files \in [UP!NameSet -> Uploaded \cup {None}]
      /\ managed \in BOOLEAN /\ clock \in Nat
      /\ \A m \in UP!NameSet : /\ uploads[m] # None => uploads[m].age < clock
                               /\ files[m] # None => files[m].age < clock
  BY <1>0 DEF UploadTypes
<1>5. /\ uploads' \in [UP!NameSet -> Uploaded \cup {None}]
      /\ \A m \in UP!NameSet : uploads'[m] # None => uploads[m] # None /\ uploads'[m] = uploads[m]
  BY <1>2, <1>4, FilesLeave
<1>6. /\ files' \in [UP!NameSet -> Uploaded \cup {None}]
      /\ \A m \in UP!NameSet : files'[m] # None => files[m] # None /\ files'[m] = files[m]
  BY <1>2, <1>4, FilesLeave
<1>7. /\ managed' \in BOOLEAN /\ clock' \in Nat /\ clock <= clock' /\ crossed' = crossed
      /\ \A m \in UP!NameSet : uploads'[m] # None =>
           /\ uploads'[m].age < clock'
           /\ uploads'[m].by = c \/ (uploads[m] # None /\ uploads'[m].by = uploads[m].by)
      /\ \A m \in UP!NameSet : files'[m] # None => files'[m].age < clock'
  BY <1>2, <1>4, <1>5, <1>6
<1>. QED
  BY <1>0, <1>3, <1>5, <1>6, <1>7, UploadGoesOn

LEMMA ClearsKeep ==
    ASSUME UploadAssumption, UploadInv, NEW d \in Clears, UP!BeginClear(d) \/ UP!Clear(d)
    PROVE  UploadInv'
<1>0. UploadTypes /\ UploadSteps /\ call[d] \in UploadCall /\ d \notin Calls
  BY DEF UploadInv, UploadTypes, UploadAssumption
<1>1. /\ \E ns : uploads' = UP!Without(uploads, ns) \/ uploads' = uploads
      /\ UNCHANGED <<files, clock>> /\ managed' \in BOOLEAN
  BY <1>0 DEF UP!BeginClear, UP!Clear, UploadTypes
<1>2. (crossed' = crossed /\ UP!Busy(d)) \/ UP!Cross(d)
  BY DEF UP!BeginClear, UP!Clear, UP!Busy
<1>3. \E p \in {"clear", "refused", "done"}, ns \in SUBSET UP!NameSet :
        call' = [call EXCEPT ![d] = [call[d] EXCEPT !.pc = p, !.names = ns]]
  <2>1. CASE UP!BeginClear(d)
    <3>1. UP!Present(uploads) \subseteq UP!NameSet
      BY <1>0 DEF UP!Present, UploadTypes
    <3>2. call' = [call EXCEPT ![d] = [call[d] EXCEPT !.pc = IF managed' THEN "clear" ELSE "refused",
                                                      !.names = IF managed' THEN UP!Present(uploads) ELSE {}]]
      BY <1>0, <2>1 DEF UP!BeginClear, UploadTypes
    <3>. QED
      BY <3>1, <3>2
  <2>2. CASE UP!Clear(d)
    <3>1. call' = [call EXCEPT ![d] = [call[d] EXCEPT !.pc = "done", !.names = call[d].names]]
      BY <1>0, <2>2 DEF UP!Clear, UP!To, UploadTypes, UploadCall
    <3>. QED
      BY <1>0, <3>1 DEF UploadCall
  <2>. QED
    BY <2>1, <2>2
<1>4. PICK p \in {"clear", "refused", "done"}, ns \in SUBSET UP!NameSet :
        call' = [call EXCEPT ![d] = [call[d] EXCEPT !.pc = p, !.names = ns]]
  BY <1>3
<1>5. [call[d] EXCEPT !.pc = p, !.names = ns] \in UploadCall /\ [call[d] EXCEPT !.pc = p, !.names = ns].pc = p
  BY <1>0 DEF UploadCall
<1>6. /\ call' \in [Calls \cup Clears -> UploadCall] /\ call'[d].pc = p
      /\ \A e \in (Calls \cup Clears) \ {d} : call'[e] = call[e]
  BY <1>0, <1>4, <1>5 DEF UploadTypes
<1>7. /\ uploads' \in [UP!NameSet -> Uploaded \cup {None}]
      /\ \A m \in UP!NameSet : uploads'[m] # None => uploads[m] # None /\ uploads'[m] = uploads[m]
  BY <1>0, <1>1, FilesLeave DEF UploadTypes
<1>8. UploadTypes'
  BY <1>0, <1>1, <1>6, <1>7 DEF UploadTypes
<1>9. UploadSteps'
  <2>1. \A c \in Calls : call'[c] = call[c] /\ (UP!Busy(c)' <=> UP!Busy(c))
    BY <1>0, <1>6 DEF UP!Busy
  <2>. QED
    BY <1>0, <1>6, <1>7, <2>1 DEF UploadSteps
<1>. QED
  BY <1>0, <1>2, <1>6, <1>8, <1>9, OneUploads

\* Nothing but the marker and the clock.
LEMMA UploadsRest ==
    ASSUME UploadInv, UNCHANGED <<uploads, files, clock, call, crossed>>, managed' \in BOOLEAN
    PROVE  UploadInv'
<1>1. UploadTypes' /\ UploadSteps' /\ UploadsApart'
  BY DEF UploadInv, UploadTypes, UploadSteps, UploadsApart, UP!Busy
<1>2. \A c \in Calls : (UP!Busy(c)' <=> UP!Busy(c)) /\ (HasItsFiles(c)' <=> HasItsFiles(c))
  BY DEF UP!Busy, HasItsFiles, Into
<1>. QED
  BY <1>1, <1>2 DEF UploadInv

LEMMA UploadStep ==
    ASSUME UploadAssumption, UploadInv, [UP!Next]_(UP!vars)
    PROVE  UploadInv'
<1>1. ASSUME UP!Adopt \/ UNCHANGED UP!vars PROVE UploadInv'
  <2>1. UNCHANGED <<uploads, files, clock, call, crossed>> /\ managed' \in BOOLEAN
    BY <1>1 DEF UP!Adopt, UP!vars, UP!dirVars, UploadInv, UploadTypes
  <2>. QED
    BY <2>1, UploadsRest
<1>. QED
  BY <1>1, BeginUpload, UploadCreates, UploadWrites, UploadEnds, ClearsKeep DEF UP!Next

\* An upload that is not crossed and ends has, or has not, what it wrote.
LEMMA EndedWhole ==
    ASSUME UploadAssumption, UploadInv, UP!Next, NEW c \in Calls \ crossed'
    PROVE  /\ (call[c].pc # "done" /\ call'[c].pc = "done")
              \/ (call[c].pc # "failed" /\ call'[c].pc = "failed") =>
                LET dir == IF call[c].into = "uploads" THEN uploads' ELSE files' IN
                \A n \in call[c].names : dir[n] # None /\ dir[n].by = c /\ dir[n].whole
           /\ call[c].pc # "refused" /\ call'[c].pc = "refused" /\ call'[c].into = "uploads" =>
                UP!Of(uploads', c) \subseteq call'[c].names
<1>0. UploadTypes /\ UploadSteps /\ call[c] \in UploadCall /\ c \notin Clears
  BY DEF UploadInv, UploadTypes, UploadAssumption
<1>1. CASE UP!Finish(c) \/ UP!FinishFails(c)
  <2>0. call[c].pc = "next" /\ crossed' = crossed /\ (UP!To(c, "done") \/ UP!To(c, "failed"))
    BY <1>1 DEF UP!Finish, UP!FinishFails
  <2>1. /\ UP!Busy(c) /\ c \notin crossed /\ call'[c].pc \in {"done", "failed"}
    <3>1. ASSUME NEW to, UP!To(c, to) PROVE call'[c].pc = to
      BY <1>0, <3>1 DEF UP!To, UploadTypes, UploadCall
    <3>. QED
      BY <2>0, <3>1 DEF UP!Busy
  <2>2. HasItsFiles(c)
    BY <2>1 DEF UploadInv
  <2>3. PICK ns : /\ ns \cap call[c].names = {}
                  /\ uploads' = IF call[c].trims THEN UP!Without(uploads, ns) ELSE uploads
    <3>1. UP!TrimmedBy(call[c].names) \cap call[c].names = {}
      BY DEF UP!TrimmedBy, UP!Oldest
    <3>2. \A k : UP!Oldest(UP!Present(uploads) \ call[c].names, k) \cap call[c].names = {}
      BY DEF UP!Oldest
    <3>3. CASE UP!Finish(c)
      BY <3>1, <3>3 DEF UP!Finish
    <3>4. CASE UP!FinishFails(c)
      BY <3>2, <3>4 DEF UP!FinishFails
    <3>. QED
      BY <1>1, <3>3, <3>4
  <2>4. files' = files
    BY <1>1 DEF UP!Finish, UP!FinishFails
  <2>5. call[c].names \subseteq UP!NameSet /\ uploads \in [UP!NameSet -> Uploaded \cup {None}]
    BY <1>0 DEF UploadTypes, UploadCall
  <2>6. \A n \in call[c].names : uploads'[n] = uploads[n]
    BY <2>3, <2>5, FilesLeave
  <2>. QED
    BY <2>1, <2>2, <2>4, <2>6 DEF HasItsFiles, Into
<1>2. CASE UP!Rollback(c)
  <2>1. /\ UP!Busy(c) /\ c \notin crossed /\ call[c].pc \in {"next", "create", "write"}
    BY <1>2 DEF UP!Rollback, UP!Busy
  <2>2. HasItsFiles(c)
    BY <2>1 DEF UploadInv
  <2>. DEFINE mine == (IF call[c].into = "uploads" THEN call[c].names ELSE {})
                      \cup (IF call[c].pc = "write" THEN {call[c].name} ELSE {})
  <2>3. PICK left \in SUBSET mine :
          /\ IF call[c].into = "uploads"
               THEN uploads' = UP!Without(uploads, mine \ left) /\ UNCHANGED files
               ELSE files' = UP!Without(files, mine \ left) /\ UNCHANGED uploads
          /\ call' = [call EXCEPT ![c].pc = "refused", ![c].names = left]
    BY <1>2 DEF UP!Rollback
  <2>4. call'[c].pc = "refused" /\ call'[c].into = call[c].into /\ call'[c].names = left
    BY <1>0, <2>3 DEF UploadTypes, UploadCall
  <2>5. ASSUME call[c].into = "uploads" PROVE UP!Of(uploads', c) \subseteq left
    <3>1. uploads' = UP!Without(uploads, mine \ left)
      BY <2>3, <2>5
    <3>2. uploads \in [UP!NameSet -> Uploaded \cup {None}]
      BY <1>0 DEF UploadTypes
    <3>3. /\ DOMAIN uploads' = UP!NameSet
          /\ \A n \in UP!NameSet : uploads'[n] = IF n \in mine \ left THEN None ELSE uploads[n]
      BY <3>1, <3>2, FilesLeave
    <3>4. \A n \in UP!NameSet : uploads[n] # None /\ uploads[n].by = c => n \in mine
      BY <2>2, <2>5 DEF HasItsFiles
    <3>. HIDE DEF mine
    <3>. QED
      BY <3>3, <3>4 DEF UP!Of, UP!Present
  <2>. QED
    BY <2>4, <2>5
<1>3. CASE UP!Begin(c)
  <2>1. /\ call[c].pc = "new" /\ uploads' = uploads
        /\ call'[c].pc \in {"next", "refused"} /\ call'[c].names = call[c].names
    BY <1>0, <1>3 DEF UP!Begin, UploadTypes, UploadCall
  <2>2. UP!Of(uploads', c) = {}
    BY <1>0, <2>1 DEF UploadSteps, UP!Of, UP!Present, UploadTypes
  <2>. QED
    BY <2>1, <2>2
<1>4. ASSUME UP!CreateNew(c) \/ UP!LookForName(c) \/ UP!Create(c) \/ UP!Write(c) \/ UP!Drop(c)
      PROVE  call'[c].pc \in {"next", "write", "create", "dropped"}
  BY <1>0, <1>4 DEF UP!CreateNew, UP!LookForName, UP!Create, UP!Write, UP!Drop, UP!To, UploadTypes, UploadCall
<1>5. ASSUME NEW d \in Calls, d # c,
             \/ UP!Begin(d) \/ UP!CreateNew(d) \/ UP!LookForName(d) \/ UP!Create(d)
             \/ UP!Write(d) \/ UP!Rollback(d) \/ UP!Drop(d) \/ UP!Finish(d) \/ UP!FinishFails(d)
      PROVE  call'[c] = call[c]
  BY <1>0, <1>5 DEF UP!Begin, UP!CreateNew, UP!LookForName, UP!Create, UP!Write, UP!Rollback, UP!Drop,
                    UP!Finish, UP!FinishFails, UP!To, UploadTypes
<1>6. ASSUME NEW d \in Clears, UP!BeginClear(d) \/ UP!Clear(d)
      PROVE  call'[c] = call[c]
  BY <1>0, <1>6 DEF UP!BeginClear, UP!Clear, UP!To, UploadTypes
<1>7. ASSUME UP!Adopt PROVE call'[c] = call[c]
  BY <1>7 DEF UP!Adopt
<1>. QED
  BY <1>1, <1>2, <1>3, <1>4, <1>5, <1>6, <1>7 DEF UP!Next

\* For any number of uploads, clears and files: an upload that meets no other leaves all its
\* files, whole, when it succeeds, and also when only trimming fails; answered with another error,
\* it leaves in the directory of uploads none but those that it failed to remove
\* (workspace_uploads, rollback_uploads, trim_uploads_dir).
THEOREM UploadsAreWhole ==
    ASSUME UploadAssumption
    PROVE  UP!Spec => []UP!TypeOK /\ [][UP!AllOrNothing]_(UP!vars)
<1>1. UP!Init => UploadInv
  BY UploadInit
<1>2. ASSUME UploadInv, [UP!Next]_(UP!vars) PROVE UploadInv'
  BY <1>2, UploadStep
<1>3. ASSUME UploadInv, UP!Next PROVE UP!AllOrNothing
  BY <1>3, EndedWhole DEF UP!AllOrNothing
<1>4. UploadInv => UP!TypeOK
  <2>. SUFFICES ASSUME UploadInv PROVE UP!TypeOK
    OBVIOUS
  <2>1. UploadTypes
    BY DEF UploadInv
  <2>2. \A n \in UP!NameSet : \A f \in {uploads[n], files[n]} :
          f # None => f.by \in Calls \cup {None} /\ f.age < clock
    BY <2>1 DEF UploadTypes, Uploaded
  <2>3. \A c \in Calls : call[c].names \subseteq UP!NameSet
    BY <2>1 DEF UploadTypes, UploadCall
  <2>. QED
    BY <2>1, <2>2, <2>3 DEF UP!TypeOK, UploadTypes
<1>. QED
  BY <1>1, <1>2, <1>3, <1>4, PTL DEF UP!Spec

-----------------------------------------------------------------------------
(* The files of a workspace.                                               *)

CONSTANTS Wheres, MaxFiles, Nothing, Directory
VARIABLES tree, content, used, where

WK == INSTANCE WorkspaceFiles

\* Files are numbers, and there are two at the start.
FilesAssumption == MaxFiles \in Nat /\ MaxFiles >= 2 /\ Nothing \notin Nat /\ Directory \notin Nat /\ Nothing # Directory

FileCall == [stage : {"idle", "looked", "opened", "emptied", "done"}, op : WK!Ops \cup {"none"},
             src : WK!Paths \cup {<<>>}, dst : WK!Paths \cup {<<>>}, file : Nat, alone : BOOLEAN,
             answer : {"none", "refused", "ok", "failed"}]

WorkTypes ==
    /\ tree \in [WK!Paths -> (1 .. used) \cup {Nothing, Directory}]
    /\ content \in [WK!Files -> {WK!Empty, WK!Old, WK!New}]
    /\ used \in 0 .. MaxFiles /\ where \in Wheres
    /\ call \in [Calls -> FileCall]

\* The tree as it is written: a file or directory inside another has it there, only what is
\* at the top is a directory, and no file is at two paths.
TreeInv ==
    /\ \A d, n \in Names : tree[<<d, n>>] # Nothing => tree[<<d>>] = Directory
    /\ \A d, n \in Names : tree[<<d, n>>] # Directory
    /\ \A p, q \in WK!Paths : WK!IsFile(p) /\ tree[p] = tree[q] => p = q

\* What a request that has looked is about, and, if it is alone, still sees.
LookInv(c) ==
    /\ call[c].stage \in {"looked", "opened", "emptied"} =>
         /\ call[c].src \in WK!Paths /\ call[c].dst \in WK!Paths /\ call[c].op \in WK!Ops
         /\ WK!Fits(call[c].op, call[c].src, call[c].dst)
         /\ call[c].op = "mkdir" => Len(call[c].dst) = 1
    /\ call[c].stage = "looked" /\ call[c].alone => WK!Looks(call[c].op, call[c].src, call[c].dst)
    /\ call[c].stage = "opened" => call[c].op = "put"
    /\ call[c].stage = "emptied" => call[c].op = "delete"

WorkInv == WorkTypes /\ TreeInv /\ \A c \in Calls : LookInv(c)

\* Paths have one name or two.
LEMMA PathShape ==
    ASSUME NEW p \in WK!Paths
    PROVE  \/ \E n \in Names : p = <<n>> /\ Len(p) = 1
           \/ \E d, n \in Names : p = <<d, n>> /\ Len(p) = 2
  BY DEF WK!Paths, WK!Tops

LEMMA PathsAre ==
    /\ \A n \in Names : <<n>> \in WK!Paths /\ Len(<<n>>) = 1
    /\ \A d, n \in Names : <<d, n>> \in WK!Paths /\ Len(<<d, n>>) = 2
    /\ \A d, n, m \in Names : <<d, n>> # <<m>>
  BY DEF WK!Paths, WK!Tops

LEMMA FirstName ==
    ASSUME NEW d \in Names, NEW n \in Names
    PROVE  SubSeq(<<d, n>>, 1, 1) = <<d>> /\ SubSeq(<<d, n>>, 2, 2) = <<n>>
<1>1. <<d, n>> \in Seq(Names) /\ <<d>> \in Seq(Names) /\ <<n>> \in Seq(Names)
  OBVIOUS
<1>2. /\ SubSeq(<<d, n>>, 1, 1) \in Seq(Names) /\ Len(SubSeq(<<d, n>>, 1, 1)) = 1
      /\ SubSeq(<<d, n>>, 1, 1)[1] = d
  BY <1>1, SubSeqProperties
<1>3. /\ SubSeq(<<d, n>>, 2, 2) \in Seq(Names) /\ Len(SubSeq(<<d, n>>, 2, 2)) = 1
      /\ SubSeq(<<d, n>>, 2, 2)[1] = n
  BY <1>1, SubSeqProperties
<1>4. ASSUME NEW s \in Seq(Names), NEW m \in Names, Len(s) = 1, s[1] = m PROVE s = <<m>>
  <2>1. <<m>> \in Seq(Names) /\ Len(<<m>>) = 1 /\ <<m>>[1] = m
    OBVIOUS
  <2>2. \A i \in 1 .. Len(s) : s[i] = <<m>>[i]
    BY <1>4, <2>1
  <2>. QED
    BY <1>4, <2>1, <2>2, SeqEqual
<1>. QED
  BY <1>2, <1>3, <1>4

LEMMA UnderAre ==
    ASSUME NEW d \in Names
    PROVE  /\ WK!Under(<<d>>) = {<<d, n>> : n \in Names}
           /\ \A n \in Names : WK!Under(<<d, n>>) = {}
<1>1. SubSeq(<<d>>, 1, 1) = <<d>>
  <2>1. <<d>> \in Seq(Names) /\ Len(<<d>>) = 1
    OBVIOUS
  <2>. QED
    BY <2>1, SubSeqFull
<1>2. ASSUME NEW q \in WK!Paths PROVE q \in WK!Under(<<d>>) <=> \E n \in Names : q = <<d, n>>
  <2>1. CASE \E n \in Names : q = <<n>> /\ Len(q) = 1
    BY <2>1, PathsAre DEF WK!Under
  <2>2. CASE \E e, n \in Names : q = <<e, n>> /\ Len(q) = 2
    <3>1. PICK e \in Names, n \in Names : q = <<e, n>> /\ Len(q) = 2
      BY <2>2
    <3>2. SubSeq(q, 1, 1) = <<e>>
      BY <3>1, FirstName
    <3>3. q \in WK!Under(<<d>>) <=> <<e>> = <<d>>
      BY <3>1, <3>2 DEF WK!Under
    <3>. QED
      BY <3>1, <3>3
  <2>. QED
    BY <2>1, <2>2, PathShape
<1>3. WK!Under(<<d>>) \subseteq WK!Paths /\ {<<d, n>> : n \in Names} \subseteq WK!Paths
  BY PathsAre DEF WK!Under
<1>4. WK!Under(<<d>>) = {<<d, n>> : n \in Names}
  BY <1>2, <1>3
<1>5. ASSUME NEW n \in Names, NEW q \in WK!Under(<<d, n>>) PROVE FALSE
  <2>1. q \in WK!Paths /\ Len(q) > Len(<<d, n>>)
    BY DEF WK!Under
  <2>2. Len(q) = 1 \/ Len(q) = 2
    BY <2>1, PathShape
  <2>3. Len(<<d, n>>) = 2
    OBVIOUS
  <2>4. ~(1 > 2) /\ ~(2 > 2)
    OBVIOUS
  <2>. QED
    BY <2>1, <2>2, <2>3, <2>4, Zenon
<1>. QED
  BY <1>4, <1>5

LEMMA ParentsAre ==
    ASSUME NEW d \in Names, NEW n \in Names
    PROVE  /\ WK!Parent(<<d, n>>) = <<d>> /\ WK!Parent(<<d>>) = <<>>
           /\ WK!ParentThere(<<d>>) /\ (WK!ParentThere(<<d, n>>) <=> tree[<<d>>] = Directory)
<1>1. WK!Parent(<<d, n>>) = <<d>>
  BY FirstName DEF WK!Parent
<1>2. WK!Parent(<<d>>) = <<>>
  <2>1. <<d>> \in Seq(Names) /\ SubSeq(<<d>>, 1, 0) = <<>>
    BY SubSeqEmpty
  <2>. QED
    BY <2>1 DEF WK!Parent
<1>. QED
  BY <1>1, <1>2 DEF WK!ParentThere, WK!IsDir

\* What makes the tree sound.
LEMMA TreeInvIsSound ==
    ASSUME TreeInv
    PROVE  WK!TreeIsSound
<1>1. ASSUME NEW p \in WK!Paths, WK!Exists(p) PROVE WK!ParentThere(p)
  <2>1. CASE \E n \in Names : p = <<n>> /\ Len(p) = 1
    BY <2>1 DEF WK!ParentThere
  <2>2. CASE \E d, n \in Names : p = <<d, n>> /\ Len(p) = 2
    BY <1>1, <2>2, ParentsAre DEF TreeInv, WK!Exists
  <2>. QED
    BY <2>1, <2>2, PathShape
<1>. QED
  BY <1>1 DEF WK!TreeIsSound, TreeInv

LEMMA WorkInit ==
    ASSUME FilesAssumption, WK!Init
    PROVE  WorkInv
<1>1. PICK d \in Names : \E n \in Names \ {d} :
        tree = [p \in WK!Paths |-> IF p = <<d>> THEN Directory ELSE IF p = <<n>> THEN 1
                                   ELSE IF p = <<d, d>> THEN 2 ELSE Nothing]
  BY DEF WK!Init
<1>2. PICK n \in Names \ {d} :
        tree = [p \in WK!Paths |-> IF p = <<d>> THEN Directory ELSE IF p = <<n>> THEN 1
                                   ELSE IF p = <<d, d>> THEN 2 ELSE Nothing]
  BY <1>1
<1>3. used = 2 /\ where \in Wheres /\ content = [f \in WK!Files |-> IF f <= 2 THEN WK!Old ELSE WK!Empty]
      /\ call = [c \in Calls |-> WK!Idle]
  BY DEF WK!Init
<1>4. WorkTypes
  <2>1. tree \in [WK!Paths -> (1 .. 2) \cup {Nothing, Directory}]
    BY <1>2
  <2>2. WK!Idle \in FileCall
    BY DEF WK!Idle, FileCall
  <2>3. 2 \in 0 .. MaxFiles
    BY DEF FilesAssumption
  <2>. QED
    BY <1>3, <2>1, <2>2, <2>3 DEF WorkTypes
<1>5. TreeInv
  <2>1. /\ \A e \in Names : tree[<<e>>] = IF e = d THEN Directory ELSE IF e = n THEN 1 ELSE Nothing
        /\ \A e, m \in Names : tree[<<e, m>>] = IF e = d /\ m = d THEN 2 ELSE Nothing
    BY <1>2, PathsAre
  <2>2. \A p \in WK!Paths : tree[p] = 1 => p = <<n>>
    BY <1>2 DEF FilesAssumption
  <2>3. \A p \in WK!Paths : tree[p] = 2 => p = <<d, d>>
    BY <1>2 DEF FilesAssumption
  <2>4. \A p \in WK!Paths : WK!IsFile(p) => tree[p] = 1 \/ tree[p] = 2
    BY <1>2 DEF WK!IsFile
  <2>5. \A p, q \in WK!Paths : WK!IsFile(p) /\ tree[p] = tree[q] => p = q
    BY <2>2, <2>3, <2>4
  <2>. QED
    BY <2>1, <2>5 DEF TreeInv, FilesAssumption
<1>6. \A c \in Calls : LookInv(c)
  BY <1>3 DEF LookInv, WK!Idle
<1>. QED
  BY <1>4, <1>5, <1>6 DEF WorkInv

\* Whoever acts is done; if the tree changes, nobody is alone any more.
LEMMA Answered ==
    ASSUME WorkTypes, NEW c \in Calls, NEW a \in {"ok", "failed"}, WK!Answer(c, a) \/ WK!Disturb(c, a)
    PROVE  /\ call' \in [Calls -> FileCall] /\ call'[c].stage = "done"
           /\ WK!Answer(c, a) => \A d \in Calls \ {c} : call'[d] = call[d]
           /\ WK!Disturb(c, a) => \A d \in Calls \ {c} : call'[d] = [call[d] EXCEPT !.alone = FALSE]
<1>0. call \in [Calls -> FileCall] /\ call[c] \in FileCall
  BY DEF WorkTypes
<1>1. /\ [call[c] EXCEPT !.stage = "done", !.answer = a] \in FileCall
      /\ [call[c] EXCEPT !.stage = "done", !.answer = a].stage = "done"
  BY <1>0 DEF FileCall
<1>2. \A d \in Calls : [call[d] EXCEPT !.alone = FALSE] \in FileCall
  BY <1>0 DEF FileCall
<1>3. CASE WK!Answer(c, a)
  <2>1. call' = [call EXCEPT ![c] = [call[c] EXCEPT !.stage = "done", !.answer = a]]
    BY <1>0, <1>3 DEF WK!Answer
  <2>2. \A d \in Calls : call'[d] = IF d = c THEN [call[c] EXCEPT !.stage = "done", !.answer = a] ELSE call[d]
    BY <1>0, <2>1
  <2>3. call' \in [Calls -> FileCall] /\ call'[c].stage = "done"
    BY <1>0, <1>1, <2>1, <2>2
  <2>4. WK!Disturb(c, a) => \A d \in Calls \ {c} : call'[d] = [call[d] EXCEPT !.alone = FALSE]
    BY DEF WK!Disturb
  <2>. QED
    BY <2>2, <2>3, <2>4
<1>4. CASE WK!Disturb(c, a)
  <2>1. call' = [d \in Calls |-> IF d = c THEN [call[d] EXCEPT !.stage = "done", !.answer = a]
                                          ELSE [call[d] EXCEPT !.alone = FALSE]]
    BY <1>4 DEF WK!Disturb
  <2>2. call' \in [Calls -> FileCall] /\ call'[c].stage = "done"
    BY <1>1, <1>2, <2>1
  <2>3. \A d \in Calls \ {c} : call'[d] = [call[d] EXCEPT !.alone = FALSE]
    BY <2>1
  <2>4. WK!Answer(c, a) => \A d \in Calls \ {c} : call'[d] = call[d]
    BY <1>0 DEF WK!Answer
  <2>. QED
    BY <2>2, <2>3, <2>4
<1>. QED
  BY <1>3, <1>4

\* What a step does to the others: nothing, or they are not alone.
LEMMA OthersLook ==
    ASSUME WorkInv, NEW c \in Calls, where' = where, LookInv(c)',
           \/ tree' = tree /\ \A d \in Calls \ {c} : call'[d] = call[d]
           \/ \A d \in Calls \ {c} : call'[d] = [call[d] EXCEPT !.alone = FALSE]
    PROVE  \A d \in Calls : LookInv(d)'
<1>. SUFFICES ASSUME NEW d \in Calls \ {c} PROVE LookInv(d)'
  OBVIOUS
<1>0. LookInv(d) /\ call[d] \in FileCall
  BY DEF WorkInv, WorkTypes
<1>1. CASE tree' = tree /\ \A e \in Calls \ {c} : call'[e] = call[e]
  <2>1. call'[d] = call[d] /\ tree' = tree
    BY <1>1
  <2>2. WK!Looks(call[d].op, call[d].src, call[d].dst)' <=> WK!Looks(call[d].op, call[d].src, call[d].dst)'
    OBVIOUS
  <2>3. \A o, p, q : WK!Looks(o, p, q) => WK!Looks(o, p, q)'
    BY <2>1 DEF WK!Looks, WK!CanCreate, WK!CanMakeDir, WK!CanPut, WK!CanDelete, WK!CanRename, WK!CanMove,
                WK!Free, WK!Exists, WK!IsDir, WK!ParentThere
  <2>4. \A o, p, q : WK!Fits(o, p, q) <=> WK!Fits(o, p, q)'
    BY DEF WK!Fits
  <2>. QED
    BY <1>0, <2>1, <2>3, <2>4 DEF LookInv
<1>2. CASE \A e \in Calls \ {c} : call'[e] = [call[e] EXCEPT !.alone = FALSE]
  <2>1. /\ call'[d].alone = FALSE /\ call'[d].stage = call[d].stage /\ call'[d].op = call[d].op
        /\ call'[d].src = call[d].src /\ call'[d].dst = call[d].dst
    BY <1>0, <1>2 DEF FileCall
  <2>. QED
    BY <1>0, <2>1 DEF LookInv
<1>. QED
  BY <1>1, <1>2

LEMMA LookKeeps ==
    ASSUME WorkInv, NEW c \in Calls, WK!Look(c)
    PROVE  WorkInv'
<1>0. WorkTypes /\ TreeInv /\ UNCHANGED <<tree, content, used, where>>
  BY DEF WorkInv, WK!Look
<1>1. PICK o \in WK!Ops, p \in WK!Paths, q \in WK!Paths :
        /\ WK!Fits(o, p, q)
        /\ call' = [call EXCEPT ![c] = [WK!Idle EXCEPT !.op = o, !.src = p, !.dst = q,
                       !.stage = IF WK!Looks(o, p, q) THEN "looked" ELSE "done",
                       !.answer = IF WK!Looks(o, p, q) THEN "none" ELSE "refused"]]
  BY DEF WK!Look
<1>. DEFINE rec == [WK!Idle EXCEPT !.op = o, !.src = p, !.dst = q,
                       !.stage = IF WK!Looks(o, p, q) THEN "looked" ELSE "done",
                       !.answer = IF WK!Looks(o, p, q) THEN "none" ELSE "refused"]
<1>2. /\ rec \in FileCall /\ rec.op = o /\ rec.src = p /\ rec.dst = q
      /\ rec.stage = IF WK!Looks(o, p, q) THEN "looked" ELSE "done"
  BY DEF WK!Idle, FileCall
<1>. HIDE DEF rec
<1>3. call' = [call EXCEPT ![c] = rec]
  BY <1>1 DEF rec
<1>4. call' \in [Calls -> FileCall] /\ call'[c] = rec /\ \A d \in Calls \ {c} : call'[d] = call[d]
  BY <1>0, <1>2, <1>3 DEF WorkTypes
<1>5. LookInv(c)'
  <2>1. WK!Looks(o, p, q) => WK!Looks(o, p, q)'
    BY <1>0 DEF WK!Looks, WK!CanCreate, WK!CanMakeDir, WK!CanPut, WK!CanDelete, WK!CanRename, WK!CanMove,
                WK!Free, WK!Exists, WK!IsDir, WK!ParentThere
  <2>2. WK!Fits(o, p, q)'
    BY <1>1 DEF WK!Fits
  <2>3. o = "mkdir" /\ WK!Looks(o, p, q) => Len(q) = 1
    BY DEF WK!Looks, WK!CanMakeDir
  <2>. QED
    BY <1>2, <1>4, <2>1, <2>2, <2>3 DEF LookInv
<1>6. WorkTypes' /\ TreeInv'
  BY <1>0, <1>4 DEF WorkTypes, TreeInv, WK!IsFile
<1>7. \A d \in Calls : LookInv(d)'
  BY <1>0, <1>4, <1>5, OthersLook
<1>. QED
  BY <1>6, <1>7 DEF WorkInv

\* Entries that come and go.
LEMMA EntryComes ==
    ASSUME FilesAssumption, WorkTypes, TreeInv, NEW q \in WK!Paths, ~WK!Exists(q), WK!ParentThere(q), NEW v,
           tree' = [tree EXCEPT ![q] = v], v = used + 1 \/ (v = Directory /\ Len(q) = 1)
    PROVE  TreeInv'
<1>1. \A p \in WK!Paths : tree'[p] = IF p = q THEN v ELSE tree[p]
  BY DEF WorkTypes
<1>2. v # Nothing /\ tree[q] = Nothing /\ used \in Nat
  BY DEF FilesAssumption, WK!Exists, WorkTypes
<1>3. \A p \in WK!Paths : tree[p] # used + 1
  BY <1>2 DEF WorkTypes, FilesAssumption
<1>4. ASSUME NEW d \in Names, NEW n \in Names, tree'[<<d, n>>] # Nothing PROVE tree'[<<d>>] = Directory
  <2>1. <<d, n>> \in WK!Paths /\ <<d>> \in WK!Paths
    BY PathsAre
  <2>2. CASE q = <<d, n>>
    <3>1. tree[<<d>>] = Directory /\ q # <<d>>
      BY <2>2, ParentsAre, PathsAre
    <3>. QED
      BY <1>1, <2>1, <3>1
  <2>3. CASE q # <<d, n>>
    <3>1. tree[<<d>>] = Directory
      BY <1>1, <1>4, <2>1, <2>3 DEF TreeInv
    <3>. QED
      BY <1>1, <1>2, <2>1, <3>1 DEF FilesAssumption
  <2>. QED
    BY <2>2, <2>3
<1>5. ASSUME NEW d \in Names, NEW n \in Names PROVE tree'[<<d, n>>] # Directory
  <2>1. <<d, n>> \in WK!Paths /\ Len(<<d, n>>) = 2 /\ tree[<<d, n>>] # Directory
    BY PathsAre DEF TreeInv
  <2>2. used + 1 # Directory
    BY <1>2 DEF FilesAssumption
  <2>. QED
    BY <1>1, <2>1, <2>2
<1>6. ASSUME NEW p \in WK!Paths, NEW r \in WK!Paths, WK!IsFile(p)', tree'[p] = tree'[r] PROVE p = r
  <2>1. tree'[p] # Directory /\ tree'[p] # Nothing
    BY <1>6 DEF WK!IsFile
  <2>2. CASE p = q
    BY <1>1, <1>3, <1>6, <2>1, <2>2
  <2>3. CASE r = q
    BY <1>1, <1>3, <1>6, <2>1, <2>3
  <2>4. CASE p # q /\ r # q
    BY <1>1, <1>6, <2>1, <2>4 DEF TreeInv, WK!IsFile
  <2>. QED
    BY <2>2, <2>3, <2>4
<1>. QED
  BY <1>4, <1>5, <1>6 DEF TreeInv

\* Paths that are emptied: no directory among them, or with all that is in it.
LEMMA EntriesGo ==
    ASSUME FilesAssumption, WorkTypes, TreeInv, NEW S \in SUBSET WK!Paths,
           tree' = [x \in WK!Paths |-> IF x \in S THEN Nothing ELSE tree[x]],
           \A d, n \in Names : <<d>> \in S /\ tree[<<d, n>>] # Nothing => <<d, n>> \in S
    PROVE  TreeInv'
<1>1. \A d, n \in Names : <<d, n>> \in WK!Paths /\ <<d>> \in WK!Paths
  BY PathsAre
<1>2. \A d, n \in Names : tree'[<<d, n>>] # Nothing => tree'[<<d>>] = Directory
  BY <1>1 DEF TreeInv
<1>3. \A d, n \in Names : tree'[<<d, n>>] # Directory
  BY <1>1 DEF TreeInv, FilesAssumption
<1>4. ASSUME NEW p \in WK!Paths, NEW r \in WK!Paths, WK!IsFile(p)', tree'[p] = tree'[r] PROVE p = r
  <2>1. tree'[p] # Directory /\ tree'[p] # Nothing
    BY <1>4 DEF WK!IsFile
  <2>2. tree'[p] = tree[p] /\ tree'[r] = tree[r]
    BY <1>4, <2>1
  <2>. QED
    BY <1>4, <2>1, <2>2 DEF TreeInv, WK!IsFile
<1>. QED
  BY <1>2, <1>3, <1>4 DEF TreeInv

LEMMA CreateOrMakeKeeps ==
    ASSUME FilesAssumption, WorkInv, NEW c \in Calls, WK!Create(c) \/ WK!MakeDir(c)
    PROVE  WorkInv'
<1>. DEFINE q == call[c].dst
<1>0. WorkTypes /\ TreeInv /\ where' = where /\ q \in WK!Paths /\ used \in Nat
      /\ (WK!MakeDir(c) => Len(q) = 1)
  BY DEF WorkInv, WK!Create, WK!MakeDir, WK!At, LookInv, WorkTypes
<1>1. ASSUME \/ tree' = tree /\ used' = used
             \/ /\ ~WK!Exists(q) /\ WK!ParentThere(q)
                /\ \/ used' = used + 1 /\ used < MaxFiles /\ tree' = [tree EXCEPT ![q] = used + 1]
                   \/ used' = used /\ tree' = [tree EXCEPT ![q] = Directory] /\ Len(q) = 1,
             content' \in [WK!Files -> {WK!Empty, WK!Old, WK!New}],
             call' \in [Calls -> FileCall], call'[c].stage = "done",
             \/ tree' = tree /\ \A d \in Calls \ {c} : call'[d] = call[d]
             \/ \A d \in Calls \ {c} : call'[d] = [call[d] EXCEPT !.alone = FALSE]
      PROVE  WorkInv'
  <2>1. TreeInv'
    <3>1. CASE tree' = tree /\ used' = used
      BY <1>0, <3>1 DEF TreeInv, WK!IsFile
    <3>2. CASE ~(tree' = tree /\ used' = used)
      BY <1>0, <1>1, <3>2, EntryComes
    <3>. QED
      BY <3>1, <3>2
  <2>2. WorkTypes'
    <3>1. used' \in 0 .. MaxFiles /\ used <= used'
      BY <1>0, <1>1 DEF WorkTypes, FilesAssumption
    <3>2. tree' \in [WK!Paths -> (1 .. used') \cup {Nothing, Directory}]
      <4>1. tree \in [WK!Paths -> (1 .. used) \cup {Nothing, Directory}]
        BY <1>0 DEF WorkTypes
      <4>2. 1 .. used \subseteq 1 .. used'
        BY <1>0, <3>1
      <4>3. used' = used + 1 => used + 1 \in 1 .. used'
        BY <1>0
      <4>. QED
        BY <1>1, <4>1, <4>2, <4>3
    <3>. QED
      BY <1>0, <1>1, <3>1, <3>2 DEF WorkTypes
  <2>3. LookInv(c)'
    BY <1>1 DEF LookInv
  <2>. QED
    BY <1>0, <1>1, <2>1, <2>2, <2>3, OthersLook DEF WorkInv
<1>2. content \in [WK!Files -> {WK!Empty, WK!Old, WK!New}]
  BY <1>0 DEF WorkTypes
<1>3. \A f : [content EXCEPT ![f] = WK!Empty] \in [WK!Files -> {WK!Empty, WK!Old, WK!New}]
  BY <1>2
<1>4. CASE WK!Create(c)
  <2>1. CASE /\ WK!ParentThere(q) /\ ~WK!Exists(q) /\ used < MaxFiles
             /\ used' = used + 1 /\ tree' = [tree EXCEPT ![q] = used + 1]
             /\ content' = [content EXCEPT ![used + 1] = WK!Empty] /\ WK!Disturb(c, "ok")
    BY <1>0, <1>1, <1>3, <2>1, Answered
  <2>2. CASE /\ \E f : content' = [content EXCEPT ![f] = WK!Empty]
             /\ WK!Disturb(c, "ok") /\ UNCHANGED <<tree, used>>
    BY <1>0, <1>1, <1>3, <2>2, Answered
  <2>3. CASE WK!Answer(c, "failed") /\ UNCHANGED <<tree, content, used>>
    BY <1>0, <1>1, <1>2, <2>3, Answered
  <2>. QED
    BY <1>4, <2>1, <2>2, <2>3 DEF WK!Create
<1>5. CASE WK!MakeDir(c)
  <2>1. UNCHANGED <<content, used>>
    BY <1>5 DEF WK!MakeDir
  <2>2. CASE WK!Exists(q)
    <3>1. tree' = tree /\ (WK!Answer(c, "ok") \/ WK!Answer(c, "failed"))
      BY <1>5, <2>2 DEF WK!MakeDir
    <3>. QED
      BY <1>0, <1>1, <1>2, <2>1, <3>1, Answered
  <2>3. CASE ~WK!Exists(q)
    <3>1. tree' = [tree EXCEPT ![q] = Directory] /\ WK!Disturb(c, "ok")
      BY <1>5, <2>3 DEF WK!MakeDir
    <3>2. WK!ParentThere(q) /\ Len(q) = 1
      <4>1. Len(q) = 1
        BY <1>0, <1>5
      <4>2. \E n \in Names : q = <<n>>
        BY <1>0, <4>1, PathShape
      <4>. QED
        BY <4>1, <4>2, ParentsAre
    <3>. QED
      BY <1>0, <1>1, <1>2, <2>1, <2>3, <3>1, <3>2, Answered
  <2>. QED
    BY <2>2, <2>3
<1>. QED
  BY <1>4, <1>5

LEMMA PutKeeps ==
    ASSUME FilesAssumption, WorkInv, NEW c \in Calls, WK!Open(c) \/ WK!Write(c)
    PROVE  WorkInv'
<1>. DEFINE q == call[c].dst
<1>0. WorkTypes /\ TreeInv /\ where' = where /\ q \in WK!Paths /\ used \in Nat /\ LookInv(c)
      /\ call[c].op = "put" /\ call \in [Calls -> FileCall] /\ call[c] \in FileCall
  <2>1. WorkTypes /\ TreeInv /\ LookInv(c)
    BY DEF WorkInv
  <2>2. where' = where /\ call[c].stage \in {"looked", "opened"} /\ (WK!Open(c) => call[c].op = "put")
    BY DEF WK!Open, WK!Write, WK!At
  <2>3. call[c].op = "put" /\ q \in WK!Paths
    BY <2>1, <2>2 DEF LookInv, WK!Write
  <2>. QED
    BY <2>1, <2>2, <2>3 DEF WorkTypes
<1>1. content \in [WK!Files -> {WK!Empty, WK!Old, WK!New}]
  BY <1>0 DEF WorkTypes
<1>2. \A f, v : v \in {WK!Empty, WK!New} => [content EXCEPT ![f] = v] \in [WK!Files -> {WK!Empty, WK!Old, WK!New}]
  BY <1>1
<1>3. CASE WK!Write(c)
  <2>1. WK!Answer(c, "ok") /\ UNCHANGED <<tree, used, where>>
    BY <1>3 DEF WK!Write
  <2>2. content' \in [WK!Files -> {WK!Empty, WK!Old, WK!New}]
    BY <1>2, <1>3 DEF WK!Write
  <2>3. /\ call' \in [Calls -> FileCall] /\ call'[c].stage = "done"
        /\ \A d \in Calls \ {c} : call'[d] = call[d]
    BY <1>0, <2>1, Answered
  <2>4. WorkTypes' /\ TreeInv' /\ LookInv(c)'
    BY <1>0, <2>1, <2>2, <2>3 DEF WorkTypes, TreeInv, LookInv, WK!IsFile
  <2>. QED
    BY <1>0, <2>1, <2>3, <2>4, OthersLook DEF WorkInv
<1>4. CASE WK!Open(c)
  <2>1. CASE ~(WK!ParentThere(q)) \/ WK!IsDir(q)
    <3>1. CASE WK!Answer(c, "failed") /\ UNCHANGED <<tree, content, used>>
      <4>1. /\ call' \in [Calls -> FileCall] /\ call'[c].stage = "done"
            /\ \A d \in Calls \ {c} : call'[d] = call[d]
        BY <1>0, <3>1, Answered
      <4>2. WorkTypes' /\ TreeInv' /\ LookInv(c)'
        BY <1>0, <3>1, <4>1 DEF WorkTypes, TreeInv, LookInv, WK!IsFile
      <4>. QED
        BY <1>0, <3>1, <4>1, <4>2, OthersLook DEF WorkInv
    <3>. QED
      BY <1>4, <2>1, <3>1 DEF WK!Open, WK!IsFile, WK!IsDir, WK!Exists, FilesAssumption
  <2>2. CASE WK!ParentThere(q) /\ WK!IsFile(q)
    <3>1. /\ content' = [content EXCEPT ![tree[q]] = WK!Empty] /\ UNCHANGED <<tree, used>>
          /\ call' = [call EXCEPT ![c].stage = "opened", ![c].file = tree[q]]
      BY <1>4, <2>2 DEF WK!Open, WK!IsFile, WK!IsDir, WK!Exists
    <3>2. tree[q] \in Nat
      BY <1>0, <2>2 DEF WorkTypes, WK!IsFile
    <3>3. /\ [call[c] EXCEPT !.stage = "opened", !.file = tree[q]] \in FileCall
          /\ [call[c] EXCEPT !.stage = "opened", !.file = tree[q]].stage = "opened"
          /\ [call[c] EXCEPT !.stage = "opened", !.file = tree[q]].op = call[c].op
          /\ [call[c] EXCEPT !.stage = "opened", !.file = tree[q]].src = call[c].src
          /\ [call[c] EXCEPT !.stage = "opened", !.file = tree[q]].dst = call[c].dst
      BY <1>0, <3>2 DEF FileCall
    <3>4. call' = [call EXCEPT ![c] = [call[c] EXCEPT !.stage = "opened", !.file = tree[q]]]
      BY <1>0, <3>1
    <3>5. /\ call' \in [Calls -> FileCall] /\ \A d \in Calls \ {c} : call'[d] = call[d]
          /\ call'[c] = [call[c] EXCEPT !.stage = "opened", !.file = tree[q]]
      BY <1>0, <3>3, <3>4
    <3>6. LookInv(c)'
      BY <1>0, <1>4, <3>3, <3>5 DEF LookInv, WK!Open, WK!At, WK!Fits
    <3>7. WorkTypes' /\ TreeInv'
      BY <1>0, <1>2, <3>1, <3>5 DEF WorkTypes, TreeInv, WK!IsFile
    <3>. QED
      BY <1>0, <3>1, <3>5, <3>6, <3>7, OthersLook DEF WorkInv
  <2>3. CASE WK!ParentThere(q) /\ ~WK!Exists(q)
    <3>1. /\ used < MaxFiles /\ used' = used + 1 /\ tree' = [tree EXCEPT ![q] = used + 1]
          /\ content' = [content EXCEPT ![used + 1] = WK!Empty]
          /\ call' = [d \in Calls |-> IF d = c THEN [call[d] EXCEPT !.stage = "opened", !.file = used + 1]
                                               ELSE [call[d] EXCEPT !.alone = FALSE]]
      BY <1>4, <2>3 DEF WK!Open, WK!IsFile, WK!IsDir, WK!Exists, FilesAssumption
    <3>3. /\ [call[c] EXCEPT !.stage = "opened", !.file = used + 1] \in FileCall
          /\ [call[c] EXCEPT !.stage = "opened", !.file = used + 1].stage = "opened"
          /\ [call[c] EXCEPT !.stage = "opened", !.file = used + 1].op = call[c].op
          /\ [call[c] EXCEPT !.stage = "opened", !.file = used + 1].src = call[c].src
          /\ [call[c] EXCEPT !.stage = "opened", !.file = used + 1].dst = call[c].dst
      <4>1. used + 1 \in Nat
        BY <1>0
      <4>. QED
        BY <1>0, <4>1 DEF FileCall
    <3>4. \A d \in Calls : [call[d] EXCEPT !.alone = FALSE] \in FileCall
      BY <1>0 DEF FileCall
    <3>5. /\ call' \in [Calls -> FileCall]
          /\ \A d \in Calls \ {c} : call'[d] = [call[d] EXCEPT !.alone = FALSE]
          /\ call'[c] = [call[c] EXCEPT !.stage = "opened", !.file = used + 1]
      BY <1>0, <3>1, <3>3, <3>4
    <3>6. LookInv(c)'
      BY <1>0, <1>4, <3>3, <3>5 DEF LookInv, WK!Open, WK!At, WK!Fits
    <3>7. TreeInv'
      BY <1>0, <2>3, <3>1, EntryComes
    <3>8. WorkTypes'
      <4>1. tree \in [WK!Paths -> (1 .. used) \cup {Nothing, Directory}]
        BY <1>0 DEF WorkTypes
      <4>2. 1 .. used \subseteq 1 .. used' /\ used + 1 \in 1 .. used' /\ used' \in 0 .. MaxFiles
        <5>1. used' = used + 1 /\ used < MaxFiles
          BY <3>1
        <5>. QED
          BY <1>0, <5>1 DEF FilesAssumption
      <4>3. tree' \in [WK!Paths -> (1 .. used') \cup {Nothing, Directory}]
        BY <3>1, <4>1, <4>2
      <4>. QED
        BY <1>0, <1>2, <3>1, <3>5, <4>2, <4>3 DEF WorkTypes
    <3>. QED
      BY <1>0, <3>5, <3>6, <3>7, <3>8, OthersLook DEF WorkInv
  <2>. QED
    BY <2>1, <2>2, <2>3 DEF WK!IsFile, WK!IsDir, WK!Exists
<1>. QED
  BY <1>3, <1>4

LEMMA DeleteKeeps ==
    ASSUME FilesAssumption, WorkInv, NEW c \in Calls, WK!Delete(c) \/ WK!RemoveDir(c)
    PROVE  WorkInv'
<1>. DEFINE p == call[c].src
<1>0. WorkTypes /\ TreeInv /\ UNCHANGED <<content, used, where>> /\ p \in WK!Paths /\ LookInv(c)
      /\ call[c].op = "delete" /\ call \in [Calls -> FileCall] /\ call[c] \in FileCall
  BY DEF WorkInv, WK!Delete, WK!RemoveDir, WK!At, LookInv, WorkTypes
<1>1. \A S \in SUBSET WK!Paths :
        tree' = [x \in WK!Paths |-> IF x \in S THEN Nothing ELSE tree[x]]
          => tree' \in [WK!Paths -> (1 .. used') \cup {Nothing, Directory}]
  BY <1>0 DEF WorkTypes
<1>2. tree' = [tree EXCEPT ![p] = Nothing] => tree' = [x \in WK!Paths |-> IF x \in {p} THEN Nothing ELSE tree[x]]
  BY <1>0 DEF WorkTypes
<1>3. ASSUME UNCHANGED tree, WK!Answer(c, "failed") PROVE WorkInv'
  <2>1. /\ call' \in [Calls -> FileCall] /\ call'[c].stage = "done"
        /\ \A d \in Calls \ {c} : call'[d] = call[d]
    BY <1>0, <1>3, Answered
  <2>2. WorkTypes' /\ TreeInv' /\ LookInv(c)'
    BY <1>0, <1>3, <2>1 DEF WorkTypes, TreeInv, LookInv, WK!IsFile
  <2>. QED
    BY <1>0, <1>3, <2>1, <2>2, OthersLook DEF WorkInv
<1>4. ASSUME tree' = [tree EXCEPT ![p] = Nothing], WK!Disturb(c, "ok"),
             WK!IsDir(p) => \A x \in WK!Under(p) : ~WK!Exists(x)
      PROVE  WorkInv'
  <2>1. /\ call' \in [Calls -> FileCall] /\ call'[c].stage = "done"
        /\ \A d \in Calls \ {c} : call'[d] = [call[d] EXCEPT !.alone = FALSE]
    BY <1>0, <1>4, Answered
  <2>2. \A d, n \in Names : <<d>> \in {p} /\ tree[<<d, n>>] # Nothing => <<d, n>> \in {p}
    <3>. SUFFICES ASSUME NEW d \in Names, NEW n \in Names, p = <<d>>, tree[<<d, n>>] # Nothing PROVE FALSE
      OBVIOUS
    <3>1. WK!IsDir(p) /\ <<d, n>> \in WK!Under(p)
      BY <1>0, UnderAre DEF TreeInv, WK!IsDir
    <3>. QED
      BY <1>4, <3>1 DEF WK!Exists
  <2>3. TreeInv'
    BY <1>0, <1>2, <1>4, <2>2, EntriesGo
  <2>4. WorkTypes' /\ LookInv(c)'
    BY <1>0, <1>1, <1>2, <1>4, <2>1 DEF WorkTypes, LookInv
  <2>. QED
    BY <1>0, <2>1, <2>3, <2>4, OthersLook DEF WorkInv
<1>5. CASE WK!RemoveDir(c)
  BY <1>3, <1>4, <1>5 DEF WK!RemoveDir
<1>6. CASE WK!Delete(c) /\ ~WK!IsDir(p)
  BY <1>3, <1>4, <1>6 DEF WK!Delete
<1>7. CASE WK!Delete(c) /\ WK!IsDir(p)
  <2>1. /\ tree' = [x \in WK!Paths |-> IF x \in WK!Under(p) THEN Nothing ELSE tree[x]]
        /\ call' = [d \in Calls |-> IF d = c THEN [call[d] EXCEPT !.stage = "emptied"]
                                             ELSE [call[d] EXCEPT !.alone = FALSE]]
    BY <1>7 DEF WK!Delete
  <2>2. /\ [call[c] EXCEPT !.stage = "emptied"] \in FileCall
        /\ [call[c] EXCEPT !.stage = "emptied"].stage = "emptied"
        /\ [call[c] EXCEPT !.stage = "emptied"].op = call[c].op
        /\ [call[c] EXCEPT !.stage = "emptied"].src = call[c].src
        /\ [call[c] EXCEPT !.stage = "emptied"].dst = call[c].dst
    BY <1>0 DEF FileCall
  <2>3. \A d \in Calls : [call[d] EXCEPT !.alone = FALSE] \in FileCall
    BY <1>0 DEF FileCall
  <2>4. /\ call' \in [Calls -> FileCall] /\ call'[c] = [call[c] EXCEPT !.stage = "emptied"]
        /\ \A d \in Calls \ {c} : call'[d] = [call[d] EXCEPT !.alone = FALSE]
    BY <2>1, <2>2, <2>3
  <2>5. LookInv(c)'
    BY <1>0, <1>7, <2>2, <2>4 DEF LookInv, WK!Delete, WK!At, WK!Fits
  <2>6. \A d, n \in Names : <<d>> \in WK!Under(p) /\ tree[<<d, n>>] # Nothing => <<d, n>> \in WK!Under(p)
    <3>1. \A d \in Names : <<d>> \notin WK!Under(p)
      <4>. SUFFICES ASSUME NEW d \in Names, <<d>> \in WK!Under(p) PROVE FALSE
        OBVIOUS
      <4>1. CASE \E n \in Names : p = <<n>>
        BY <4>1, UnderAre, PathsAre
      <4>2. CASE \E e, n \in Names : p = <<e, n>>
        BY <4>2, UnderAre
      <4>. QED
        BY <1>0, <4>1, <4>2, PathShape
    <3>. QED
      BY <3>1
  <2>7. WK!Under(p) \subseteq WK!Paths
    BY DEF WK!Under
  <2>8. TreeInv'
    BY <1>0, <2>1, <2>6, <2>7, EntriesGo
  <2>9. WorkTypes'
    BY <1>0, <1>1, <2>1, <2>4, <2>7 DEF WorkTypes
  <2>. QED
    BY <1>0, <2>4, <2>5, <2>8, <2>9, OthersLook DEF WorkInv
<1>. QED
  BY <1>5, <1>6, <1>7

\* A directory at the top that gets another name takes what is in it along.
LEMMA DirectoryMoves ==
    ASSUME WorkTypes, TreeInv, NEW a \in Names, NEW b \in Names, a # b, tree[<<a>>] = Directory,
           WK!Moved(<<a>>, <<b>>)
    PROVE  \A d \in Names :
             /\ tree'[<<d>>] = IF d = b THEN Directory ELSE IF d = a THEN Nothing ELSE tree[<<d>>]
             /\ \A m \in Names : tree'[<<d, m>>] = IF d = b THEN tree[<<a, m>>]
                                                   ELSE IF d = a THEN Nothing ELSE tree[<<d, m>>]
<1>1. \A x \in WK!Paths : tree'[x] =
        IF x = <<b>> THEN tree[<<a>>]
        ELSE IF x \in WK!Under(<<b>>) /\ WK!IsDir(<<a>>)
             THEN tree[<<a>> \o SubSeq(x, Len(<<b>>) + 1, Len(x))]
             ELSE IF x = <<a>> \/ x \in WK!Under(<<a>>) THEN Nothing ELSE tree[x]
  BY DEF WK!Moved
<1>2. WK!IsDir(<<a>>)
  BY DEF WK!IsDir
<1>3. TAKE d \in Names
<1>4. tree'[<<d>>] = IF d = b THEN Directory ELSE IF d = a THEN Nothing ELSE tree[<<d>>]
  <2>1. <<d>> \in WK!Paths /\ <<d>> \notin WK!Under(<<b>>) /\ <<d>> \notin WK!Under(<<a>>)
    BY UnderAre, PathsAre
  <2>2. (<<d>> = <<b>> <=> d = b) /\ (<<d>> = <<a>> <=> d = a)
    OBVIOUS
  <2>. QED
    BY <1>1, <2>1, <2>2
<1>5. ASSUME NEW m \in Names
      PROVE  tree'[<<d, m>>] = IF d = b THEN tree[<<a, m>>] ELSE IF d = a THEN Nothing ELSE tree[<<d, m>>]
  <2>1. /\ <<d, m>> \in WK!Paths /\ <<d, m>> # <<a>> /\ <<d, m>> # <<b>>
        /\ <<d, m>> \in WK!Under(<<b>>) <=> d = b
        /\ <<d, m>> \in WK!Under(<<a>>) <=> d = a
    BY UnderAre, PathsAre
  <2>2. Len(<<b>>) + 1 = 2 /\ Len(<<d, m>>) = 2
    OBVIOUS
  <2>3. <<a>> \o SubSeq(<<d, m>>, 2, 2) = <<a, m>>
    <3>1. SubSeq(<<d, m>>, 2, 2) = <<m>>
      BY FirstName
    <3>2. <<a>> \o <<m>> = <<a, m>>
      <4>1. <<a>> \in Seq(Names) /\ <<m>> \in Seq(Names) /\ <<a, m>> \in Seq(Names)
        OBVIOUS
      <4>2. /\ <<a>> \o <<m>> \in Seq(Names) /\ Len(<<a>> \o <<m>>) = 2
            /\ (<<a>> \o <<m>>)[1] = a /\ (<<a>> \o <<m>>)[2] = m
        BY <4>1, ConcatProperties
      <4>3. Len(<<a, m>>) = 2 /\ <<a, m>>[1] = a /\ <<a, m>>[2] = m
        OBVIOUS
      <4>4. \A i \in 1 .. 2 : i = 1 \/ i = 2
        OBVIOUS
      <4>5. \A i \in 1 .. 2 : (<<a>> \o <<m>>)[i] = <<a, m>>[i]
        BY <4>2, <4>3, <4>4
      <4>. QED
        BY <4>1, <4>2, <4>3, <4>5, SeqEqual
    <3>. QED
      BY <3>1, <3>2
  <2>4. <<a>> \o SubSeq(<<d, m>>, Len(<<b>>) + 1, Len(<<d, m>>)) = <<a, m>>
    BY <2>2, <2>3
  <2>. QED
    BY <1>1, <1>2, <2>1, <2>4
<1>. QED
  BY <1>4, <1>5

\* A file that gets another path leaves the one it had.
LEMMA FileMoves ==
    ASSUME WorkTypes, TreeInv, NEW p \in WK!Paths, NEW q \in WK!Paths, p # q, ~WK!IsDir(p), WK!Moved(p, q)
    PROVE  \A x \in WK!Paths :
             tree'[x] = IF x = q THEN tree[p] ELSE IF x = p THEN Nothing ELSE tree[x]
<1>1. TAKE x \in WK!Paths
<1>2. tree'[x] = IF x = q THEN tree[p] ELSE IF x = p \/ x \in WK!Under(p) THEN Nothing ELSE tree[x]
  BY DEF WK!Moved
<1>3. ASSUME x \in WK!Under(p) PROVE tree[x] = Nothing
  <2>1. CASE \E n \in Names : p = <<n>>
    <3>1. PICK n \in Names : p = <<n>>
      BY <2>1
    <3>2. PICK m \in Names : x = <<n, m>>
      BY <1>3, <3>1, UnderAre
    <3>. QED
      BY <3>1, <3>2 DEF TreeInv, WK!IsDir
  <2>2. CASE \E e, n \in Names : p = <<e, n>>
    BY <1>3, <2>2, UnderAre
  <2>. QED
    BY <2>1, <2>2, PathShape
<1>. QED
  BY <1>2, <1>3

\* Where a request that renames or moves puts what it takes.
Moves(p, q) ==
    /\ WK!Exists(p) /\ WK!ParentThere(q) /\ p # q
    /\ WK!IsDir(p) => \E a, b \in Names : a # b /\ p = <<a>> /\ q = <<b>>
    /\ WK!Exists(q) => IF WK!IsDir(p) THEN \A x \in WK!Under(q) : ~WK!Exists(x) ELSE WK!IsFile(q)
    /\ WK!Moved(p, q)

LEMMA RenamedMoves ==
    ASSUME WorkInv, NEW c \in Calls, WK!Rename(c) \/ WK!Move(c)
    PROVE  /\ call[c].src \in WK!Paths /\ call[c].dst \in WK!Paths /\ UNCHANGED <<content, used, where>>
           /\ \/ Moves(call[c].src, call[c].dst) /\ WK!Disturb(c, "ok")
              \/ UNCHANGED tree /\ WK!Answer(c, "failed")
           /\ call[c].stage = "looked" /\ call[c].op \in {"rename", "move"}
<1>. DEFINE p == call[c].src
            q == call[c].dst
<1>1. /\ call[c].stage = "looked" /\ call[c].op \in {"rename", "move"} /\ WK!Renamed(c)
  BY DEF WK!Rename, WK!Move, WK!At
<1>2. p \in WK!Paths /\ q \in WK!Paths /\ WK!Fits(call[c].op, p, q) /\ TreeInv
  BY <1>1 DEF WorkInv, LookInv
<1>3. p # q
  <2>1. CASE call[c].op = "rename"
    BY <1>2, <2>1 DEF WK!Fits
  <2>2. CASE call[c].op = "move"
    <3>1. Len(p) = 1 /\ Len(q) = 2
      BY <1>2, <2>2 DEF WK!Fits
    <3>. QED
      BY <3>1
  <2>. QED
    BY <1>1, <2>1, <2>2
<1>4. ASSUME WK!IsDir(p), Len(q) = 1 PROVE \E a, b \in Names : a # b /\ p = <<a>> /\ q = <<b>>
  <2>1. PICK b \in Names : q = <<b>>
    BY <1>2, <1>4, PathShape
  <2>2. PICK a \in Names : p = <<a>>
    BY <1>2, <1>4, PathShape DEF TreeInv, WK!IsDir
  <2>. QED
    BY <1>3, <2>1, <2>2
<1>5. CASE UNCHANGED tree /\ WK!Answer(c, "failed")
  BY <1>1, <1>2, <1>5 DEF WK!Renamed
<1>6. CASE ~(UNCHANGED tree /\ WK!Answer(c, "failed"))
  <2>1. /\ WK!Exists(p) /\ WK!ParentThere(q) /\ (~WK!Exists(q) \/ WK!Replaces(p, q))
        /\ (WK!IsDir(p) => Len(q) = 1) /\ WK!Moved(p, q) /\ WK!Disturb(c, "ok")
    BY <1>1, <1>6 DEF WK!Renamed
  <2>2. Moves(p, q)
    BY <1>3, <1>4, <2>1 DEF Moves, WK!Replaces
  <2>. QED
    BY <1>1, <1>2, <2>1, <2>2 DEF WK!Renamed
<1>. QED
  BY <1>5, <1>6

LEMMA MovesKeepTheTree ==
    ASSUME FilesAssumption, WorkTypes, TreeInv, NEW p \in WK!Paths, NEW q \in WK!Paths, Moves(p, q)
    PROVE  TreeInv' /\ tree' \in [WK!Paths -> (1 .. used) \cup {Nothing, Directory}]
<1>0. tree \in [WK!Paths -> (1 .. used) \cup {Nothing, Directory}] /\ p # q /\ WK!Moved(p, q)
  BY DEF WorkTypes, Moves
<1>t. ASSUME \A x \in WK!Paths : tree'[x] = Nothing \/ \E y \in WK!Paths : tree'[x] = tree[y]
      PROVE  tree' \in [WK!Paths -> (1 .. used) \cup {Nothing, Directory}]
  <2>1. \A x \in WK!Paths : tree'[x] \in (1 .. used) \cup {Nothing, Directory}
    BY <1>0, <1>t
  <2>2. tree' = [x \in WK!Paths |-> tree'[x]]
    BY <1>0 DEF WK!Moved
  <2>. QED
    BY <2>1, <2>2
<1>1. CASE WK!IsDir(p)
  <2>1. PICK a \in Names, b \in Names : a # b /\ p = <<a>> /\ q = <<b>>
    BY <1>1 DEF Moves
  <2>2. \A d \in Names :
             /\ tree'[<<d>>] = IF d = b THEN Directory ELSE IF d = a THEN Nothing ELSE tree[<<d>>]
             /\ \A m \in Names : tree'[<<d, m>>] = IF d = b THEN tree[<<a, m>>]
                                                   ELSE IF d = a THEN Nothing ELSE tree[<<d, m>>]
    BY <1>0, <1>1, <2>1, DirectoryMoves DEF WK!IsDir
  <2>3. \A d, n \in Names : tree'[<<d, n>>] # Nothing => tree'[<<d>>] = Directory
    BY <2>2 DEF TreeInv
  <2>4. ASSUME NEW d \in Names, NEW n \in Names PROVE tree'[<<d, n>>] # Directory
    <3>1. tree'[<<d, n>>] = IF d = b THEN tree[<<a, n>>] ELSE IF d = a THEN Nothing ELSE tree[<<d, n>>]
      BY <2>2
    <3>2. tree[<<a, n>>] # Directory /\ tree[<<d, n>>] # Directory /\ Nothing # Directory
      BY DEF TreeInv, FilesAssumption
    <3>. QED
      BY <3>1, <3>2
  <2>5. ASSUME NEW x \in WK!Paths, tree'[x] # Nothing, tree'[x] # Directory
        PROVE  \/ \E m \in Names : x = <<b, m>> /\ tree'[x] = tree[<<a, m>>]
               \/ /\ tree'[x] = tree[x] /\ x # p
                  /\ \A m \in Names : x # <<a, m>> /\ x # <<b, m>>
    <3>1. CASE \E d \in Names : x = <<d>>
      BY <2>1, <2>2, <2>5, <3>1, PathsAre
    <3>2. CASE \E d, m \in Names : x = <<d, m>>
      <4>1. PICK d \in Names, m \in Names : x = <<d, m>>
        BY <3>2
      <4>2. CASE d = b
        BY <2>2, <4>1, <4>2
      <4>3. CASE d # b
        <5>1. d # a /\ tree'[x] = tree[x]
          BY <2>2, <2>5, <4>1, <4>3
        <5>2. \A k \in Names : x # <<a, k>> /\ x # <<b, k>>
          BY <4>1, <4>3, <5>1
        <5>. QED
          BY <2>1, <4>1, <5>1, <5>2, PathsAre
      <4>. QED
        BY <4>2, <4>3
    <3>. QED
      BY <3>1, <3>2, PathShape
  <2>6. ASSUME NEW x \in WK!Paths, NEW y \in WK!Paths, WK!IsFile(x)', tree'[x] = tree'[y] PROVE x = y
    <3>1. tree'[x] # Nothing /\ tree'[x] # Directory /\ tree'[y] # Nothing /\ tree'[y] # Directory
      BY <2>6 DEF WK!IsFile
    <3>2. \A u, v \in WK!Paths : tree[u] = tree[v] /\ tree[u] # Nothing /\ tree[u] # Directory => u = v
      BY DEF TreeInv, WK!IsFile
    <3>3. \A m \in Names : <<a, m>> \in WK!Paths
      BY PathsAre
    <3>4. CASE \E m \in Names : x = <<b, m>> /\ tree'[x] = tree[<<a, m>>]
      <4>1. PICK m \in Names : x = <<b, m>> /\ tree'[x] = tree[<<a, m>>]
        BY <3>4
      <4>2. CASE \E k \in Names : y = <<b, k>> /\ tree'[y] = tree[<<a, k>>]
        <5>1. PICK k \in Names : y = <<b, k>> /\ tree'[y] = tree[<<a, k>>]
          BY <4>2
        <5>2. <<a, m>> = <<a, k>>
          BY <2>6, <3>1, <3>2, <3>3, <4>1, <5>1
        <5>. QED
          BY <4>1, <5>1, <5>2
      <4>3. CASE tree'[y] = tree[y] /\ \A k \in Names : y # <<a, k>>
        <5>1. y = <<a, m>>
          BY <2>6, <3>1, <3>2, <3>3, <4>1, <4>3
        <5>. QED
          BY <4>3, <5>1
      <4>. QED
        BY <2>5, <3>1, <4>2, <4>3
    <3>5. CASE tree'[x] = tree[x] /\ \A k \in Names : x # <<a, k>>
      <4>2. CASE \E k \in Names : y = <<b, k>> /\ tree'[y] = tree[<<a, k>>]
        <5>1. PICK k \in Names : y = <<b, k>> /\ tree'[y] = tree[<<a, k>>]
          BY <4>2
        <5>2. x = <<a, k>>
          BY <2>6, <3>1, <3>2, <3>3, <3>5, <5>1
        <5>. QED
          BY <3>5, <5>2
      <4>3. CASE tree'[y] = tree[y]
        BY <2>6, <3>1, <3>2, <3>5, <4>3
      <4>. QED
        BY <2>5, <3>1, <4>2, <4>3
    <3>. QED
      BY <2>5, <3>1, <3>4, <3>5
  <2>7. ASSUME NEW x \in WK!Paths PROVE tree'[x] = Nothing \/ \E y \in WK!Paths : tree'[x] = tree[y]
    <3>1. CASE tree'[x] = Nothing \/ tree'[x] = tree[p]
      BY <3>1
    <3>2. CASE tree'[x] # Nothing /\ tree'[x] # Directory
      BY <2>5, <3>2, PathsAre
    <3>. QED
      BY <1>1, <3>1, <3>2 DEF WK!IsDir
  <2>. QED
    BY <1>t, <2>3, <2>4, <2>6, <2>7 DEF TreeInv
<1>2. CASE ~WK!IsDir(p)
  <2>1. \A x \in WK!Paths : tree'[x] = IF x = q THEN tree[p] ELSE IF x = p THEN Nothing ELSE tree[x]
    BY <1>0, <1>2, FileMoves
  <2>2. tree[p] # Nothing /\ tree[p] # Directory /\ tree[q] # Directory /\ WK!ParentThere(q)
    BY <1>2 DEF Moves, WK!Exists, WK!IsDir, WK!IsFile, FilesAssumption
  <2>3. ASSUME NEW d \in Names, NEW n \in Names, tree'[<<d, n>>] # Nothing PROVE tree'[<<d>>] = Directory
    <3>1. <<d, n>> \in WK!Paths /\ <<d>> \in WK!Paths
      BY PathsAre
    <3>2. tree[<<d>>] = Directory
      <4>1. CASE <<d, n>> = q
        BY <2>2, <4>1, ParentsAre
      <4>2. CASE <<d, n>> # q
        BY <2>1, <2>3, <3>1, <4>2 DEF TreeInv
      <4>. QED
        BY <4>1, <4>2
    <3>3. <<d>> # p /\ <<d>> # q
      BY <2>2, <3>2
    <3>. QED
      BY <2>1, <3>1, <3>2, <3>3
  <2>4. \A d, n \in Names : tree'[<<d, n>>] # Directory
    BY <2>1, <2>2, PathsAre DEF TreeInv, FilesAssumption
  <2>5. ASSUME NEW x \in WK!Paths, NEW y \in WK!Paths, WK!IsFile(x)', tree'[x] = tree'[y] PROVE x = y
    <3>1. tree'[x] # Nothing /\ tree'[x] # Directory
      BY <2>5 DEF WK!IsFile
    <3>2. \A u, v \in WK!Paths : tree[u] = tree[v] /\ tree[u] # Nothing /\ tree[u] # Directory => u = v
      BY DEF TreeInv, WK!IsFile
    <3>. QED
      BY <1>0, <2>1, <2>5, <3>1, <3>2
  <2>6. \A x \in WK!Paths : tree'[x] = Nothing \/ \E y \in WK!Paths : tree'[x] = tree[y]
    BY <2>1
  <2>. QED
    BY <1>t, <2>3, <2>4, <2>5, <2>6 DEF TreeInv
<1>. QED
  BY <1>1, <1>2

LEMMA RenamedKeeps ==
    ASSUME FilesAssumption, WorkInv, NEW c \in Calls, WK!Rename(c) \/ WK!Move(c)
    PROVE  WorkInv'
<1>. DEFINE p == call[c].src
            q == call[c].dst
<1>0. /\ WorkTypes /\ TreeInv /\ p \in WK!Paths /\ q \in WK!Paths /\ UNCHANGED <<content, used, where>>
      /\ \/ Moves(p, q) /\ WK!Disturb(c, "ok")
         \/ UNCHANGED tree /\ WK!Answer(c, "failed")
  BY RenamedMoves DEF WorkInv
<1>1. CASE UNCHANGED tree /\ WK!Answer(c, "failed")
  <2>1. /\ call' \in [Calls -> FileCall] /\ call'[c].stage = "done"
        /\ \A d \in Calls \ {c} : call'[d] = call[d]
    BY <1>0, <1>1, Answered
  <2>2. WorkTypes' /\ TreeInv' /\ LookInv(c)'
    BY <1>0, <1>1, <2>1 DEF WorkTypes, TreeInv, LookInv, WK!IsFile
  <2>. QED
    BY <1>0, <1>1, <2>1, <2>2, OthersLook DEF WorkInv
<1>2. CASE Moves(p, q) /\ WK!Disturb(c, "ok")
  <2>1. /\ call' \in [Calls -> FileCall] /\ call'[c].stage = "done"
        /\ \A d \in Calls \ {c} : call'[d] = [call[d] EXCEPT !.alone = FALSE]
    BY <1>0, <1>2, Answered
  <2>2. TreeInv' /\ tree' \in [WK!Paths -> (1 .. used) \cup {Nothing, Directory}]
    BY <1>0, <1>2, MovesKeepTheTree
  <2>3. WorkTypes' /\ LookInv(c)'
    BY <1>0, <2>1, <2>2 DEF WorkTypes, LookInv
  <2>. QED
    BY <1>0, <2>1, <2>2, <2>3, OthersLook DEF WorkInv
<1>. QED
  BY <1>0, <1>1, <1>2

LEMMA WorkStep ==
    ASSUME FilesAssumption, WorkInv, [WK!Next]_(WK!vars)
    PROVE  WorkInv'
<1>1. CASE UNCHANGED WK!vars
  BY <1>1 DEF WK!vars, WorkInv, WorkTypes, TreeInv, LookInv, WK!IsFile, WK!Looks, WK!CanCreate, WK!CanMakeDir,
              WK!CanPut, WK!CanDelete, WK!CanRename, WK!CanMove, WK!Free, WK!Exists, WK!IsDir,
              WK!ParentThere, WK!Fits
<1>2. CASE WK!Next
  BY <1>2, LookKeeps, CreateOrMakeKeeps, PutKeeps, DeleteKeeps, RenamedKeeps DEF WK!Next
<1>. QED
  BY <1>1, <1>2

LEMMA WorkTypeOK ==
    ASSUME FilesAssumption, WorkInv
    PROVE  WK!TypeOK /\ WK!TreeIsSound
<1>1. WorkTypes /\ TreeInv
  BY DEF WorkInv
<1>2. \A c \in Calls : call[c].op \in WK!Ops \cup {"none"}
  BY <1>1 DEF WorkTypes, FileCall
<1>. QED
  BY <1>1, <1>2, TreeInvIsSound DEF WorkTypes, WK!TypeOK, WK!IsFile

\* A move takes what it finds to where it says and leaves all else.
LEMMA MovesKeepFiles ==
    ASSUME FilesAssumption, WorkTypes, TreeInv, NEW p \in WK!Paths, NEW q \in WK!Paths, Moves(p, q),
           ~WK!Exists(q), NEW x \in WK!Paths, WK!IsFile(x)
    PROVE  \E y \in WK!Paths : tree'[y] = tree[x]
<1>0. p # q /\ WK!Moved(p, q) /\ tree[q] = Nothing /\ tree[x] # Nothing /\ tree[x] # Directory
  BY DEF Moves, WK!Exists, WK!IsFile
<1>1. CASE WK!IsDir(p)
  <2>1. PICK a \in Names, b \in Names : a # b /\ p = <<a>> /\ q = <<b>>
    BY <1>1 DEF Moves
  <2>2. \A d \in Names :
             /\ tree'[<<d>>] = IF d = b THEN Directory ELSE IF d = a THEN Nothing ELSE tree[<<d>>]
             /\ \A m \in Names : tree'[<<d, m>>] = IF d = b THEN tree[<<a, m>>]
                                                   ELSE IF d = a THEN Nothing ELSE tree[<<d, m>>]
    BY <1>0, <1>1, <2>1, DirectoryMoves DEF WK!IsDir
  <2>3. CASE \E d \in Names : x = <<d>>
    <3>1. PICK d \in Names : x = <<d>>
      BY <2>3
    <3>2. d # a /\ d # b
      BY <1>0, <1>1, <2>1, <3>1 DEF WK!IsDir
    <3>. QED
      BY <2>2, <3>1, <3>2
  <2>4. CASE \E d, m \in Names : x = <<d, m>>
    <3>1. PICK d \in Names, m \in Names : x = <<d, m>>
      BY <2>4
    <3>2. d # b
      BY <1>0, <2>1, <3>1 DEF TreeInv, FilesAssumption
    <3>3. CASE d = a
      BY <2>2, <3>1, <3>3, PathsAre
    <3>4. CASE d # a
      BY <2>2, <3>1, <3>2, <3>4
    <3>. QED
      BY <3>3, <3>4
  <2>. QED
    BY <2>3, <2>4, PathShape
<1>2. CASE ~WK!IsDir(p)
  <2>1. \A y \in WK!Paths : tree'[y] = IF y = q THEN tree[p] ELSE IF y = p THEN Nothing ELSE tree[y]
    BY <1>0, <1>2, FileMoves
  <2>. QED
    BY <1>0, <2>1
<1>. QED
  BY <1>1, <1>2

LEMMA NothingIsTaken ==
    ASSUME FilesAssumption, WorkInv, WK!Next
    PROVE  WK!NothingIsReplaced
<1>0. WorkTypes /\ TreeInv /\ used \in Nat
  BY DEF WorkInv, WorkTypes
<1>. SUFFICES ASSUME NEW c \in Calls, WK!ActsNow(c), call[c].op \in {"create", "mkdir", "rename", "move"},
                     call[c].alone \/ (call[c].op = "create" /\ where # "remote"),
                     NEW x \in WK!Paths, WK!IsFile(x)
              PROVE  \E y \in WK!Paths : tree'[y] = tree[x] /\ content'[tree[x]] = content[tree[x]]
  <2>s. WK!Held = {<<tree[p], content[tree[p]]>> : p \in {y \in WK!Paths : WK!IsFile(y)}}
    BY DEF WK!Held
  <2>t. ASSUME NEW h \in WK!Held
        PROVE  \E y \in WK!Paths : WK!IsFile(y) /\ h = <<tree[y], content[tree[y]]>>
    BY <2>s, <2>t
  <2>u. \A f, v : <<f, v>>[1] = f /\ <<f, v>>[2] = v
    OBVIOUS
  <2>. QED
    BY <2>t, <2>u DEF WK!NothingIsReplaced
<1>. DEFINE q == call[c].dst
            p == call[c].src
<1>1. CASE tree' = tree /\ content' = content
  BY <1>1
<1>2. PICK e \in Calls : WK!Look(e) \/ WK!Create(e) \/ WK!MakeDir(e) \/ WK!Open(e) \/ WK!Write(e)
                           \/ WK!Delete(e) \/ WK!RemoveDir(e) \/ WK!Rename(e) \/ WK!Move(e)
  BY DEF WK!Next
<1>3. \A a : WK!Answer(e, a) \/ WK!Disturb(e, a) => \A d \in Calls \ {e} : call'[d].stage = call[d].stage
  <2>1. call \in [Calls -> FileCall]
    BY <1>0 DEF WorkTypes
  <2>. SUFFICES ASSUME NEW a, WK!Answer(e, a) \/ WK!Disturb(e, a), NEW d \in Calls \ {e}
                PROVE  call'[d].stage = call[d].stage
    OBVIOUS
  <2>2. call[d] \in FileCall
    BY <2>1
  <2>3. [call[d] EXCEPT !.alone = FALSE].stage = call[d].stage
    BY <2>2 DEF FileCall
  <2>4. CASE WK!Answer(e, a)
    <3>1. call' = [call EXCEPT ![e] = [call[e] EXCEPT !.stage = "done", !.answer = a]]
      BY <2>1, <2>4 DEF WK!Answer
    <3>. QED
      BY <2>1, <3>1
  <2>5. CASE WK!Disturb(e, a)
    <3>1. call'[d] = [call[d] EXCEPT !.alone = FALSE]
      BY <2>5 DEF WK!Disturb
    <3>. QED
      BY <2>3, <3>1
  <2>. QED
    BY <2>4, <2>5
<1>4. CASE WK!Look(e)
  BY <1>1, <1>4 DEF WK!Look
<1>5. CASE WK!Open(e) \/ WK!Write(e) \/ WK!Delete(e) \/ WK!RemoveDir(e)
  <2>0. call \in [Calls -> FileCall] /\ LookInv(e)
    BY <1>0 DEF WorkTypes, WorkInv
  <2>1. call[e].op \in {"put", "delete"}
    BY <1>5, <2>0 DEF LookInv, WK!Open, WK!Write, WK!Delete, WK!RemoveDir, WK!At
  <2>2. c # e
    BY <2>1
  <2>3. call'[c].stage = call[c].stage
    <3>1. CASE WK!Write(e)
      BY <1>3, <2>2, <3>1 DEF WK!Write
    <3>2. CASE WK!RemoveDir(e)
      BY <1>3, <2>2, <3>2 DEF WK!RemoveDir
    <3>3. CASE WK!Open(e)
      <4>1. [call[c] EXCEPT !.alone = FALSE].stage = call[c].stage
        BY <2>0 DEF FileCall
      <4>2. CASE call' = [call EXCEPT ![e].stage = "opened", ![e].file = tree[call[e].dst]]
        BY <2>0, <2>2, <4>2
      <4>3. CASE call' = [d \in Calls |-> IF d = e THEN [call[d] EXCEPT !.stage = "opened", !.file = used + 1]
                                                   ELSE [call[d] EXCEPT !.alone = FALSE]]
        BY <2>2, <4>1, <4>3
      <4>4. CASE WK!Answer(e, "failed")
        BY <1>3, <2>2, <4>4
      <4>. QED
        BY <3>3, <4>2, <4>3, <4>4 DEF WK!Open
    <3>4. CASE WK!Delete(e)
      BY <1>3, <2>0, <2>2, <3>4 DEF WK!Delete, FileCall
    <3>. QED
      BY <1>5, <3>1, <3>2, <3>3, <3>4
  <2>. QED
    BY <2>3 DEF WK!ActsNow
<1>6. CASE WK!Create(e)
  <2>1. e = c
    BY <1>3, <1>6 DEF WK!Create, WK!ActsNow
  <2>2. tree[x] # Nothing /\ tree[x] \in 1 .. used /\ call[c].stage = "looked" /\ call[c].op = "create"
    BY <1>0, <1>6, <2>1 DEF WorkTypes, WK!IsFile, WK!Create, WK!At
  <2>3. CASE /\ ~WK!Exists(q) /\ used < MaxFiles /\ tree' = [tree EXCEPT ![q] = used + 1]
             /\ content' = [content EXCEPT ![used + 1] = WK!Empty]
    <3>1. tree'[x] = tree[x]
      BY <1>0, <2>2, <2>3 DEF WorkTypes, WK!Exists
    <3>2. tree[x] # used + 1
      BY <1>0, <2>2
    <3>3. content'[tree[x]] = content[tree[x]]
      BY <1>0, <2>3, <3>2 DEF WorkTypes
    <3>. QED
      BY <3>1, <3>3
  <2>4. CASE where = "remote" /\ WK!IsFile(q)
    <3>1. WK!Looks("create", p, q)
      BY <2>2, <2>4 DEF WorkInv, LookInv
    <3>2. WK!Free(q)
      BY <3>1 DEF WK!Looks, WK!CanCreate
    <3>. QED
      BY <2>4, <3>2 DEF WK!Free, WK!Exists, WK!IsFile
  <2>. QED
    BY <1>1, <1>6, <2>1, <2>3, <2>4 DEF WK!Create
<1>7. CASE WK!MakeDir(e)
  <2>1. e = c /\ content' = content
    BY <1>3, <1>7 DEF WK!MakeDir, WK!ActsNow
  <2>2. CASE WK!Exists(q)
    BY <1>1, <1>7, <2>1, <2>2 DEF WK!MakeDir
  <2>3. CASE ~WK!Exists(q)
    <3>1. tree' = [tree EXCEPT ![q] = Directory] /\ tree[q] = Nothing /\ tree[x] # Nothing
      BY <1>7, <2>1, <2>3 DEF WK!MakeDir, WK!Exists, WK!IsFile
    <3>2. tree'[x] = tree[x]
      BY <1>0, <3>1 DEF WorkTypes
    <3>. QED
      BY <2>1, <3>2
  <2>. QED
    BY <2>2, <2>3
<1>8. CASE WK!Rename(e) \/ WK!Move(e)
  <2>1. /\ call[e].src \in WK!Paths /\ call[e].dst \in WK!Paths /\ content' = content
        /\ \/ Moves(call[e].src, call[e].dst) /\ WK!Disturb(e, "ok")
           \/ UNCHANGED tree /\ WK!Answer(e, "failed")
        /\ call[e].stage = "looked" /\ call[e].op \in {"rename", "move"}
    BY <1>8, RenamedMoves
  <2>2. e = c
    BY <1>3, <2>1 DEF WK!ActsNow
  <2>3. WK!Looks(call[c].op, p, q)
    BY <2>1, <2>2 DEF WorkInv, LookInv
  <2>4. ~WK!Exists(q)
    BY <2>1, <2>2, <2>3 DEF WK!Looks, WK!CanRename, WK!CanMove, WK!Free
  <2>5. CASE Moves(p, q)
    BY <1>0, <2>1, <2>2, <2>4, <2>5, MovesKeepFiles
  <2>. QED
    BY <1>1, <2>1, <2>2, <2>5
<1>. QED
  BY <1>2, <1>4, <1>5, <1>6, <1>7, <1>8

\* Requests that look at a workspace's files first and act on them later leave a tree in which every
\* entry's directory is there and no file is at two paths; and one that makes, renames or moves an
\* entry takes no file and no content from another, unless somebody else changed the entries between
\* its look and its act; a local create not even then (src/workspace/handlers.rs).
THEOREM FilesAreKept ==
    FilesAssumption => (WK!Spec => [](WK!TypeOK /\ WK!TreeIsSound) /\ [][WK!NothingIsReplaced]_(WK!vars))
<1>. SUFFICES ASSUME FilesAssumption
              PROVE  WK!Spec => [](WK!TypeOK /\ WK!TreeIsSound) /\ [][WK!NothingIsReplaced]_(WK!vars)
  OBVIOUS
<1>1. WK!Init => WorkInv
  BY WorkInit
<1>2. WorkInv /\ [WK!Next]_(WK!vars) => WorkInv'
  BY WorkStep
<1>3. WorkInv => WK!TypeOK /\ WK!TreeIsSound
  BY WorkTypeOK
<1>4. WorkInv /\ [WK!Next]_(WK!vars) => [WK!NothingIsReplaced]_(WK!vars)
  BY NothingIsTaken
<1>. QED
  BY <1>1, <1>2, <1>3, <1>4, PTL DEF WK!Spec

=============================================================================
