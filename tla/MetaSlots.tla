------------------------------ MODULE MetaSlots ------------------------------
(***************************************************************************)
(* The two metadata slots of a .coco file: internal/storage/pager.go       *)
(* (OpenPager, FlushAll, SaveMeta, Close) with the meta page format of     *)
(* internal/storage/page.go.                                               *)
(*                                                                         *)
(* A file has two views.  `file' is what ReadAt returns (the operating     *)
(* system's cache included); `stable' is what is on the medium.  WriteAt   *)
(* changes the first, Sync copies the first to the second, the death of    *)
(* the process leaves both alone, and a loss of power leaves, for every    *)
(* slot that was not synced, the old image, the new one or a torn one.     *)
(***************************************************************************)
EXTENDS Integers, FiniteSets

CONSTANTS Caller,          \* goroutines that call FlushAll
          MaxGeneration,   \* bound on Generation, for TLC
          MaxBody          \* bound on the number of metadata changes, for TLC

ASSUME BoundsAssumption == MaxGeneration \in Nat /\ MaxBody \in Nat

VARIABLES
  file,       \* slot -> image, as ReadAt sees it
  stable,     \* slot -> image, on the medium
  meta,       \* p.meta: its Generation and the version of everything else
  active,     \* p.activeMetaSlot; while closed, its last value
  phase,      \* the pager: closed, being created, open, or refused as corrupt
  pc,         \* where each caller is in FlushAll
  body,       \* history: the version of the latest in-memory change
  anchor,     \* history: a slot whose image is known to be on the medium
  acked,      \* history: the version in that slot
  attempts,   \* history: versions whose SaveMeta began after it was written
  created     \* history: a Sync has succeeded on this file

pager == <<file, stable, meta, active, phase, pc>>
history == <<body, anchor, acked, attempts, created>>
vars == <<pager, history>>

Slot == {0, 1}
\* An image that does not decode has no meaningful gen and body.
Image == [kind: {"meta", "absent", "torn"}, gen: Nat, body: Nat]
Absent == [kind |-> "absent", gen |-> 0, body |-> 0]   \* past the end of the file
Torn == [kind |-> "torn", gen |-> 0, body |-> 0]       \* fails DecodeMetaPage

\* Encode, with the checksum that makes a torn image recognisable.
Encode(m) == [kind |-> "meta", gen |-> m.gen, body |-> m.body]

\* DecodeMetaPage succeeds.
Valid(img) == img.kind = "meta"

Corrupt(f) == ~Valid(f[0]) /\ ~Valid(f[1])

\* A faulty Selected: the lower Generation wins.
SelectedOldest(f) ==
  IF Valid(f[0]) /\ (Valid(f[1]) => f[0].gen < f[1].gen) THEN 0 ELSE 1

\* OpenPager's choice: A on a tie or when B does not decode.
Selected(f) ==
  IF Valid(f[0]) /\ (Valid(f[1]) => f[0].gen >= f[1].gen) THEN 0 ELSE 1

\* What a loss of power may leave of the slots.
AfterPowerLoss ==
  {f \in [Slot -> {file[s] : s \in Slot} \cup {stable[s] : s \in Slot} \cup {Torn}] :
     \A s \in Slot : \/ f[s] \in {file[s], stable[s]}
                     \/ f[s] = Torn /\ file[s] # stable[s]}

TypeOK ==
  /\ file \in [Slot -> Image]
  /\ stable \in [Slot -> Image]
  /\ meta \in [gen: Nat, body: Nat]
  /\ active \in Slot
  /\ phase \in {"closed", "creating", "open", "corrupt"}
  /\ pc \in [Caller -> {"idle", "synced", "saving"}]
  /\ body \in Nat
  /\ anchor \in Slot
  /\ acked \in Nat
  /\ attempts \in SUBSET Nat
  /\ created \in BOOLEAN

Init ==
  /\ file = [s \in Slot |-> Absent]
  /\ stable = [s \in Slot |-> Absent]
  /\ meta = [gen |-> 0, body |-> 0]
  /\ active = 0
  /\ phase = "closed"
  /\ pc = [c \in Caller |-> "idle"]
  /\ body = 0
  /\ anchor = 0
  /\ acked = 0
  /\ attempts = {}
  /\ created = FALSE

-----------------------------------------------------------------------------
(* OpenPager *)

\* size == 0: both slots are written, A with Generation 1 and B with 0.
CreateWrite ==
  /\ phase = "closed"
  /\ \A s \in Slot : file[s] = Absent
  /\ file' = [s \in Slot |-> Encode([gen |-> 1 - s, body |-> 0])]
  /\ phase' = "creating"
  /\ UNCHANGED <<stable, meta, active, pc, history>>

CreateSync ==
  /\ phase = "creating"
  /\ stable' = file
  /\ meta' = [gen |-> 1, body |-> 0]
  /\ active' = 0
  /\ phase' = "open"
  /\ anchor' = 0
  /\ acked' = 0
  /\ attempts' = {}
  /\ created' = TRUE
  /\ UNCHANGED <<file, pc, body>>

\* A WriteAt or the Sync of the creation returns an error, and so does OpenPager.
CreateFails ==
  /\ phase = "creating"
  /\ \E n \in 0..2, torn \in BOOLEAN :
       file' = [s \in Slot |-> IF s < n THEN file[s]
                               ELSE IF s = n /\ torn THEN Torn ELSE Absent]
  /\ phase' = "closed"
  /\ UNCHANGED <<stable, meta, active, pc, history>>

\* size > 0: the slot is chosen from what ReadAt returns; nothing is synced.
OpenPager ==
  /\ phase = "closed"
  /\ \E s \in Slot : file[s] # Absent
  /\ ~Corrupt(file)
  /\ LET s == Selected(file)
     IN /\ meta' = [gen |-> file[s].gen, body |-> file[s].body]
        /\ active' = s
        /\ IF file = stable
             THEN /\ anchor' = s
                  /\ acked' = file[s].body
                  /\ attempts' = {}
                  /\ created' = TRUE
             ELSE UNCHANGED <<anchor, acked, attempts, created>>
  /\ phase' = "open"
  /\ UNCHANGED <<file, stable, pc, body>>

\* Neither slot decodes: ErrCorruptMeta.
OpenCorrupt ==
  /\ phase = "closed"
  /\ \E s \in Slot : file[s] # Absent
  /\ Corrupt(file)
  /\ phase' = "corrupt"
  /\ UNCHANGED <<file, stable, meta, active, pc, history>>

-----------------------------------------------------------------------------
(* The open pager *)

\* Allocator, transaction manager and catalog change the metadata through the
\* pointer Meta() returned; they do not hold p.mu, so also during a SaveMeta.
Change ==
  /\ phase = "open"
  /\ body < MaxBody
  /\ body' = body + 1
  /\ meta' = [meta EXCEPT !.body = body + 1]
  /\ UNCHANGED <<file, stable, active, phase, pc, anchor, acked, attempts, created>>

\* A faulty FlushAllSync: FlushAll does not sync before it saves the meta page.
FlushAllWithoutSync(c) ==
  /\ phase = "open"
  /\ pc[c] = "idle"
  /\ pc' = [pc EXCEPT ![c] = "synced"]
  /\ UNCHANGED <<file, stable, meta, active, phase, history>>

\* FlushAll has written the dirty pages and syncs the backend, without p.mu.
\* (If Flush or this Sync fails, FlushAll returns and the slots are as before.)
FlushAllSync(c) ==
  /\ phase = "open"
  /\ pc[c] = "idle"
  /\ stable' = file
  /\ pc' = [pc EXCEPT ![c] = "synced"]
  /\ anchor' = active
  /\ acked' = file[active].body
  /\ attempts' = IF anchor = active /\ created THEN attempts ELSE {}
  /\ created' = TRUE
  /\ UNCHANGED <<file, meta, active, phase, body>>

\* SaveMeta up to its WriteAt; p.mu is held from here to the end.
SaveMetaWrite(c) ==
  /\ pc[c] = "synced"
  /\ \A d \in Caller : pc[d] # "saving"
  /\ meta.gen < MaxGeneration
  /\ LET m == [meta EXCEPT !.gen = @ + 1]
     IN /\ meta' = m
        /\ file' = [file EXCEPT ![1 - active] = Encode(m)]
  /\ attempts' = attempts \cup {meta.body}
  /\ pc' = [pc EXCEPT ![c] = "saving"]
  /\ UNCHANGED <<stable, active, phase, body, anchor, acked, created>>

\* WriteAt returns an error: Generation stays incremented.
SaveMetaWriteFails(c) ==
  /\ pc[c] = "synced"
  /\ \A d \in Caller : pc[d] # "saving"
  /\ meta.gen < MaxGeneration
  /\ LET m == [meta EXCEPT !.gen = @ + 1]
     IN /\ meta' = m
        /\ \E img \in {file[1 - active], Torn, Encode(m)} :
             file' = [file EXCEPT ![1 - active] = img]
  /\ attempts' = attempts \cup {meta.body}
  /\ pc' = [pc EXCEPT ![c] = "idle"]
  /\ UNCHANGED <<stable, active, phase, body, anchor, acked, created>>

\* The Sync of SaveMeta and the switch of activeMetaSlot.  Recover calls
\* SaveMeta a second time after its FlushAll: such a caller is `synced' again.
SaveMetaSync(c) ==
  /\ pc[c] = "saving"
  /\ stable' = file
  /\ active' = 1 - active
  /\ \E next \in {"idle", "synced"} : pc' = [pc EXCEPT ![c] = next]
  /\ anchor' = 1 - active
  /\ acked' = file[1 - active].body
  /\ attempts' = {}
  /\ UNCHANGED <<file, meta, phase, body, created>>

SaveMetaSyncFails(c) ==
  /\ pc[c] = "saving"
  /\ pc' = [pc EXCEPT ![c] = "idle"]
  /\ UNCHANGED <<file, stable, meta, active, phase, history>>

\* The process ends: Close after its FlushAll, whose error it ignores, or a kill.
Close ==
  /\ phase # "closed"
  /\ phase' = "closed"
  /\ pc' = [c \in Caller |-> "idle"]
  /\ UNCHANGED <<file, stable, meta, active, history>>

\* The machine loses power.
PowerLoss ==
  /\ \E f \in AfterPowerLoss :
       /\ file' = f
       /\ stable' = f
  /\ phase' = "closed"
  /\ pc' = [c \in Caller |-> "idle"]
  /\ UNCHANGED <<meta, active, history>>

FlushAll(c) ==
  \/ FlushAllSync(c)
  \/ SaveMetaWrite(c) \/ SaveMetaWriteFails(c)
  \/ SaveMetaSync(c) \/ SaveMetaSyncFails(c)

Next ==
  \/ CreateWrite \/ CreateSync \/ CreateFails
  \/ OpenPager \/ OpenCorrupt
  \/ Change
  \/ \E c \in Caller : FlushAll(c)
  \/ Close \/ PowerLoss

Spec == Init /\ [][Next]_vars

-----------------------------------------------------------------------------
(* Properties *)

\* Whatever instant the power fails at, once the file has been synced the slots
\* still hold metadata the program saved: the last save SaveMeta reported, or
\* one begun after it.  OpenPager syncs nothing, so this rests on FlushAll's
\* Sync before SaveMeta as much as on the alternation of the slots.
PowerLossRecovers ==
  created => \A f \in AfterPowerLoss :
                ~Corrupt(f) /\ f[Selected(f)].body \in {acked} \cup attempts

\* handoff.md: two meta pages provide "crash-safe metadata switching".  OpenPager
\* never returns metadata older than the last save SaveMeta reported.
OpenNeverGoesBack ==
  [][phase = "closed" /\ phase' = "open" => meta'.body >= acked]_vars
-----------------------------------------------------------------------------
(* The inductive invariant behind both properties *)

\* OpenPager takes image img of slot s over image other of slot 1 - s.
Beats(img, s, other) == IF s = 0 THEN img.gen >= other.gen ELSE img.gen > other.gen

\* The anchor slot is on the medium, and only a later save can win over it.
AnchorHolds ==
  /\ created => /\ file[anchor] = stable[anchor]
                /\ Valid(file[anchor])
                /\ file[anchor].body = acked
                /\ \A img \in {file[1 - anchor], stable[1 - anchor]} :
                      Valid(img) /\ Beats(img, 1 - anchor, file[anchor])
                        => img.body \in attempts
  /\ ~created => /\ acked = 0
                 /\ attempts = {}
                 /\ \A s \in Slot : \A img \in {file[s], stable[s]} :
                       Valid(img) => img.body = 0
  /\ \A b \in attempts : acked <= b /\ b <= body
  /\ acked <= body

\* The open pager works from the selected slot, and from the first Sync of a
\* session on, that slot is the anchor.
PagerHolds ==
  /\ phase = "creating" =>
       ~created /\ file = [s \in Slot |-> Encode([gen |-> 1 - s, body |-> 0])]
  /\ phase = "open" =>
       /\ Valid(file[active])
       /\ file[active].gen <= meta.gen
       /\ file[active].body <= meta.body
       /\ acked <= meta.body
       /\ meta.body <= body
       /\ (created /\ anchor = active) \/ Selected(file) = active
  /\ phase # "open" => \A c \in Caller : pc[c] = "idle"

SavingHolds ==
  \A c \in Caller :
    /\ pc[c] # "idle" => created /\ anchor = active
    /\ pc[c] = "saving" =>
         /\ file[1 - active].kind = "meta"
         /\ file[1 - active].gen = meta.gen
         /\ file[active].gen < meta.gen
         /\ file[1 - active].body \in attempts
         /\ file[1 - active].body <= meta.body
         /\ \A d \in Caller : pc[d] = "saving" => d = c

IInv == TypeOK /\ AnchorHolds /\ PagerHolds /\ SavingHolds
=============================================================================
