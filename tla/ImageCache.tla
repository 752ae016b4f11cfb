----------------------------- MODULE ImageCache -----------------------------
(***************************************************************************)
(* Decoding off the UI thread: the image cache, its workers and the frames *)
(* that ask it for pictures (painting.rs, and build and draw_view in       *)
(* app.rs).                                                                *)
(*                                                                         *)
(* A build that asks for an image gets it or nothing, and what it got is   *)
(* what its widget draws until it is built again.  Only the UI thread      *)
(* touches the cache; the workers share two channels with it.              *)
(*                                                                         *)
(* The clock of the least-recently-used order is the order itself: a       *)
(* sequence of keys, the last used last.  A tree holds an Rc of every      *)
(* picture it draws, which is what Rc::strong_count tells the cache.       *)
(***************************************************************************)
EXTENDS Integers, Sequences, FiniteSets, SequencesExt, FiniteSetsExt, Lists

CONSTANTS
  Keys,        \* images by their cache key
  Unreadable,  \* those that do not decode
  Bytes,       \* what each costs decoded
  MaxEntries,  \* MAX_CACHE_ENTRIES
  MaxBytes,    \* MAX_CACHE_BYTES
  Workers,     \* decode threads
  MaxChanges   \* bound: times the application changes what it shows

ASSUME KeysAssumption == Unreadable \subseteq Keys /\ Bytes \in [Keys -> Nat]
ASSUME FiniteAssumption == IsFiniteSet(Keys) /\ IsFiniteSet(Workers)
ASSUME LimitsAssumption == MaxEntries \in Nat /\ MaxBytes \in Nat

NoKey == "none"
ASSUME NoKeyAssumption == NoKey \notin Keys

VARIABLES
  slot,        \* ImageCache::entries: absent, decoding, image or failed
  order,       \* the keys with an entry, by Entry::used
  bytes,       \* ImageCache::bytes
  outstanding, \* ImageCache::outstanding
  arrived,     \* ImageCache::arrived
  requests,    \* the channel to the workers
  results,     \* the channel back
  busy,        \* what each worker decodes
  wanted,      \* the images the application's widgets show
  dirty,       \* widgets that set_state has marked
  display,     \* what each widget drew: its picture or a placeholder
  held,        \* pictures of the cache that a tree holds an Rc of
  frame,       \* a frame is requested
  phase,       \* idle, building
  todo,        \* widgets this build has yet to build
  rebuilt,     \* this build has built something
  up,          \* the workers that spawned
  animating,   \* something else asks for every frame, from now to the end
  changes      \* how often the application changed what it shows

cacheVars == <<slot, order, bytes, outstanding, arrived>>
channelVars == <<requests, results, busy>>
treeVars == <<wanted, dirty, display>>
frameVars == <<frame, phase, todo, rebuilt>>
settings == <<up, animating>>
vars == <<cacheVars, channelVars, treeVars, held, frameVars, changes, settings>>

Init ==
  /\ slot = [k \in Keys |-> "absent"] /\ order = <<>>
  /\ bytes = 0 /\ outstanding = 0 /\ arrived = FALSE
  /\ requests = <<>> /\ results = <<>> /\ busy = [w \in Workers |-> NoKey]
  /\ wanted = {} /\ dirty = {} /\ display = [k \in Keys |-> "nothing"]
  /\ held = {}
  /\ frame = FALSE /\ phase = "idle" /\ todo = {} /\ rebuilt = FALSE
  /\ changes = 0
  /\ up \in SUBSET Workers /\ animating \in BOOLEAN

(***************************************************************************)
(* The cache, as values: file, touch and evict are applied several times   *)
(* in one call.                                                            *)
(***************************************************************************)
Slots == {"absent", "decoding", "image", "failed"}

\* The keys with an entry.
Present(s) == {k \in Keys : s[k] # "absent"}

CacheStates ==
  [slot : [Keys -> Slots], order : Seq(Keys), bytes : Int, held : SUBSET Keys]

Cache == [slot |-> slot, order |-> order, bytes |-> bytes, held |-> held]

Cost(k, s) == IF s = "image" THEN Bytes[k] ELSE 0

Finished(c) == {k \in Keys : c.slot[k] \in {"image", "failed"}}

\* Mutated: the bytes are not counted.
OverEntries(c) == Cardinality(Finished(c)) > MaxEntries

OverLimit(c) == Cardinality(Finished(c)) > MaxEntries \/ c.bytes > MaxBytes

\* Mutated: the reference count is not looked at.
EvictableAll(c) == Finished(c)

\* is_evictable: a failure, or an image nobody else holds.
Evictable(c) == {k \in Finished(c) : c.slot[k] = "image" => k \notin c.held}

\* The cache without the entry of a key; Evict drops one after the other.
Without[c \in CacheStates] ==
  [k \in Keys |-> [slot |-> [c.slot EXCEPT ![k] = "absent"],
                   order |-> Only(c.order, Keys \ {k}),
                   bytes |-> c.bytes - Cost(k, c.slot[k]),
                   held |-> c.held \ {k}]]

\* evict: the least recently used of what may go, until the cache is inside
\* both limits or nothing may.
Evict[c \in CacheStates] ==
  LET old == Only(c.order, Evictable(c))
  IN IF OverLimit(c) /\ old # <<>> THEN Evict[Without[c][Head(old)]] ELSE c

Touch(c, k) == [c EXCEPT !.order = Append(Only(@, Keys \ {k}), k)]

\* A replaced image is no longer the cache's, whoever holds it.
File(c, k, s) ==
  Evict[[slot |-> [c.slot EXCEPT ![k] = s],
         order |-> Touch(c, k).order,
         bytes |-> c.bytes + Cost(k, s) - Cost(k, c.slot[k]),
         held |-> c.held \ {k}]]

\* Mutated: a failure is not remembered.
DecodedOnly(k) == IF k \in Unreadable THEN "absent" ELSE "image"

Decoded(k) == IF k \in Unreadable THEN "failed" ELSE "image"

FileDecoded[c \in CacheStates] == [k \in Keys |-> File(c, k, Decoded(k))]

\* collect: everything the workers have finished is filed, in their order.
Collect(c) == FoldLeft(LAMBDA d, k : FileDecoded[d][k], c, results)

\* A call has collected and leaves c.
Leave(c) ==
  /\ slot' = c.slot /\ order' = c.order /\ bytes' = c.bytes
  /\ results' = <<>>

(***************************************************************************)
(* The workers: rf.image.N takes a request under the lock and sends back   *)
(* what it decoded.                                                        *)
(***************************************************************************)
TakeRequest(w) ==
  /\ w \in up /\ busy[w] = NoKey
  /\ requests # <<>>
  /\ busy' = [busy EXCEPT ![w] = Head(requests)]
  /\ requests' = Tail(requests)
  /\ UNCHANGED <<cacheVars, results, treeVars, held, frameVars, changes,
                 settings>>

\* Mutated: a worker has nothing to send for what does not decode.
SendResultOfSome(w) ==
  /\ busy[w] # NoKey
  /\ results' = IF busy[w] \in Unreadable THEN results
                                          ELSE Append(results, busy[w])
  /\ busy' = [busy EXCEPT ![w] = NoKey]
  /\ UNCHANGED <<cacheVars, requests, treeVars, held, frameVars, changes,
                 settings>>

SendResult(w) ==
  /\ busy[w] # NoKey
  /\ results' = Append(results, busy[w])
  /\ busy' = [busy EXCEPT ![w] = NoKey]
  /\ UNCHANGED <<cacheVars, requests, treeVars, held, frameVars, changes,
                 settings>>

(***************************************************************************)
(* The application, between frames: a handler shows other images with      *)
(* set_state and a frame is asked for after it; or it drops an entry with  *)
(* image_cache_evict, whose holders keep their picture.                    *)
(***************************************************************************)
Change ==
  /\ phase = "idle"
  /\ changes < MaxChanges
  /\ changes' = changes + 1
  /\ \E show \in SUBSET Keys \ {wanted} :
       /\ wanted' = show
       /\ dirty' = dirty \cup (show \ wanted) \cup (wanted \ show)
  /\ frame' = TRUE
  /\ UNCHANGED <<cacheVars, channelVars, display, held, phase, todo, rebuilt,
                 settings>>

EvictKey ==
  /\ phase = "idle"
  /\ changes < MaxChanges
  /\ changes' = changes + 1
  /\ \E k \in Keys :
       /\ slot[k] # "absent"
       /\ LET c == Without[Cache][k]
          IN /\ slot' = c.slot /\ order' = c.order /\ bytes' = c.bytes
             /\ held' = c.held
  /\ UNCHANGED <<outstanding, arrived, channelVars, treeVars, frameVars, settings>>

(***************************************************************************)
(* A frame: build takes the arrivals and builds everything, or only what   *)
(* is dirty; draw_view then asks whether anything is still being decoded.  *)
(***************************************************************************)
\* Mutated: an arrival is reported only by the call that collects it.
ImagesArrivedNow == results # <<>>

\* take_images_arrived: nothing records who asked, so everyone builds.
ImagesArrived == arrived \/ results # <<>>

BeginBuild ==
  /\ phase = "idle"
  /\ frame \/ animating
  /\ frame' = FALSE
  /\ phase' = "building"
  /\ todo' = IF ImagesArrived THEN wanted ELSE dirty \cap wanted
  /\ rebuilt' = (ImagesArrived \/ dirty # {})
  /\ \E c \in {Collect(Cache)} : Leave(c) /\ held' = c.held
  /\ outstanding' = outstanding - Len(results)
  /\ arrived' = FALSE
  /\ dirty' = {}
  /\ display' = [k \in Keys |-> IF k \in wanted THEN display[k] ELSE "nothing"]
  /\ UNCHANGED <<requests, busy, wanted, changes, settings>>

\* Image::shared, get_or_request. Without a worker it decodes then and there,
\* and holds what it decoded while the cache makes room for it.
DecodedHere(k) ==
  Evict[[slot |-> [slot EXCEPT ![k] = Decoded(k)],
         order |-> Append(order, k),
         bytes |-> bytes + Cost(k, Decoded(k)),
         held |-> IF k \in Unreadable THEN held ELSE held \cup {k}]]

\* The call returns with the cache as left; its caller draws what it has for k.
Return(k, left) ==
  \E c \in {left} :
    /\ Leave(c)
    /\ held' = c.held \cup (IF c.slot[k] = "image" THEN {k} ELSE {})
    /\ display' = [display EXCEPT ![k] = IF c.slot[k] = "image" THEN "picture"
                                                               ELSE "placeholder"]

BuildOne(k) ==
  /\ phase = "building"
  /\ k \in todo
  /\ todo' = todo \ {k}
  /\ arrived' = (arrived \/ results # <<>>)
  /\ \E c \in {Collect(Cache)} :
       LET absent == c.slot[k] = "absent"
           asked == absent /\ up # {}
       IN /\ \/ c.slot[k] \in {"image", "failed"} /\ Return(k, Touch(c, k))
             \/ c.slot[k] = "decoding" /\ Return(k, c)
             \/ asked /\ Return(k, File(c, k, "decoding"))
             \/ absent /\ up = {} /\ Return(k, DecodedHere(k))
          /\ requests' = IF asked THEN Append(requests, k) ELSE requests
          /\ outstanding' = outstanding - Len(results) + (IF asked THEN 1 ELSE 0)
  /\ UNCHANGED <<busy, wanted, dirty, frame, phase, rebuilt, changes, settings>>

\* images_pending decides whether there will be another frame. The handles of
\* widgets that are gone are dropped with their render objects: before this
\* collect or after it.
EndBuild ==
  /\ phase = "building"
  /\ todo = {}
  /\ phase' = "idle"
  /\ \E c \in {Collect([Cache EXCEPT !.held = h]) : h \in {held, held \cap wanted}} :
       Leave(c) /\ held' = c.held \cap wanted
  /\ outstanding' = outstanding - Len(results)
  /\ arrived' = (arrived \/ results # <<>>)
  /\ frame' = (frame \/ rebuilt \/ outstanding' > 0)
  /\ rebuilt' = FALSE
  /\ UNCHANGED <<requests, busy, treeVars, todo, changes, settings>>

WorkerStep == \E w \in Workers : TakeRequest(w) \/ SendResult(w)
FrameStep == BeginBuild \/ (\E k \in Keys : BuildOne(k)) \/ EndBuild

Next == WorkerStep \/ Change \/ EvictKey \/ FrameStep

Spec == Init /\ [][Next]_vars

\* A frame that is asked for comes and is carried through; workers work.
Fairness ==
  /\ WF_vars(FrameStep)
  /\ \A w \in Workers : WF_vars(TakeRequest(w)) /\ WF_vars(SendResult(w))

FairSpec == Spec /\ Fairness

-----------------------------------------------------------------------------
(***************************************************************************)
(* Properties.                                                             *)
(***************************************************************************)
TypeOK ==
  /\ Cache \in CacheStates
  /\ IsInjective(order) /\ ToSet(order) = Present(slot)
  /\ bytes \in Nat /\ outstanding \in Nat /\ arrived \in BOOLEAN
  /\ requests \in Seq(Keys) /\ results \in Seq(Keys)
  /\ busy \in [Workers -> Keys \cup {NoKey}]
  /\ wanted \subseteq Keys /\ dirty \subseteq Keys
  /\ display \in [Keys -> {"nothing", "placeholder", "picture"}]
  /\ held \subseteq {k \in Keys : slot[k] = "image"}
  /\ frame \in BOOLEAN /\ phase \in {"idle", "building"} /\ rebuilt \in BOOLEAN
  /\ up \subseteq Workers /\ animating \in BOOLEAN
  /\ todo \subseteq wanted /\ (phase = "idle" => todo = {})

\* What the keys in S cost together.
Total(cost, S) == MapThenSumSet(LAMBDA k : cost[k], S)

Costs(s) == [k \in Keys |-> Cost(k, s[k])]

InFlight(k) ==
  Cardinality({i \in DOMAIN requests : requests[i] = k})
  + Cardinality({w \in Workers : busy[w] = k})
  + Cardinality({i \in DOMAIN results : results[i] = k})

\* The running totals are what they stand for: bytes is what the finished
\* images cost through every replacement and eviction, outstanding is what is
\* with the workers or on its way back; and an entry that is decoding has a
\* decode coming, "the promise that a worker has these bytes" (is_evictable).
BooksBalance ==
  /\ bytes = Total(Costs(slot), Keys)
  /\ outstanding = Total([k \in Keys |-> InFlight(k)], Keys)
  /\ \A k \in Keys : slot[k] = "decoding" => InFlight(k) > 0

ImageInv == TypeOK /\ BooksBalance

\* Filing an arrival leaves the cache inside both limits, or with nothing
\* finished in it but what was being drawn.
Images == {k \in Keys : slot[k] = "image"}
Full == \/ Cardinality({k \in Keys : slot[k] \in {"image", "failed"}}) > MaxEntries
        \/ Total(Bytes, Images) > MaxBytes

WithinLimits ==
  [][results # <<>> /\ results' = <<>> /\ Full' =>
       \A k \in Keys : slot'[k] # "failed" /\ (slot'[k] = "image" => k \in held)]_vars

\* No image that is on screen is dropped by the cache of its own accord, "which
\* would only cost a decode when it is asked for again", except one that a
\* second decode (after image_cache_evict) replaces with a copy nobody draws.
DrawnStays ==
  [][\A k \in held \cap wanted :
       slot'[k] = "absent" => EvictKey \/ k \in ToSet(results)]_vars

\* The cache drops what it must and nothing that is needed: filing an arrival
\* leaves it within its limits, and no picture on screen goes (evict,
\* is_evictable).
EvictsTheRight == WithinLimits /\ DrawnStays

\* What is shown fits in the cache.
Fits ==
  /\ Cardinality(wanted) <= MaxEntries
  /\ Total(Bytes, wanted \ Unreadable) <= MaxBytes

\* While frames come for some other reason, every image of a screen that fits
\* appears; without a worker it appears in the frame that builds it.
PicturesOfFrames ==
  \A k \in Keys \ Unreadable :
    (k \in wanted /\ Fits /\ (animating \/ up = {}))
      ~> (display[k] = "picture" \/ k \notin wanted \/ ~Fits)

\* Frames are on demand: on a screen that fits, unreadable images included,
\* once nothing changes there are no more.
ComesToRest == <>[]Fits /\ ~animating => <>[](phase = "idle" /\ ~frame)

\* A screen of images comes to what it should be, and to rest.
ScreenSettles == PicturesOfFrames /\ ComesToRest
=============================================================================
