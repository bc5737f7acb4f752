----------------------------- MODULE UpdateCheck -----------------------------
(***************************************************************************)
(* GET /api/update-check (src/update_check.rs): the latest release of the  *)
(* feed is asked for at most once in a TTL, unless the user forces a       *)
(* check, and not at all for some time after a failure.  One lock is held  *)
(* over the whole request to the feed; a check takes its time before it    *)
(* waits for the lock.                                                     *)
(*                                                                         *)
(* A release stands as its number and the bundles of this platform that    *)
(* are uploaded; the feed tells it from others by an ETag, which stands as *)
(* the release; which bundle is best is left out.                          *)
(***************************************************************************)
EXTENDS Integers

CONSTANTS
    Checks,            \* clients that check
    Kinds,             \* the bundles of this platform
    TTL, Backoff, MaxBackoff,
    MaxTime, MaxVersion, \* bounds
    None

TimesAssumption == {TTL, Backoff, MaxBackoff, MaxTime} \subseteq Nat

VARIABLES
    now,
    feed,      \* [version, uploaded]
    ended,     \* release -> the time the feed went on to another
    cache,     \* [release, etag, at, until]: until is 0 when there is no backoff
    holder,    \* the check that holds the lock
    check      \* [pc, forced, at, etag, answer]

vars == <<now, feed, ended, cache, holder, check>>

Releases == [version : 1..MaxVersion, uploaded : SUBSET Kinds]
Later == MaxTime + 1

-----------------------------------------------------------------------------
Tick ==
    /\ now < MaxTime /\ now' = now + 1
    /\ UNCHANGED <<feed, ended, cache, holder, check>>

\* The feed: a release is published, its bundles are uploaded one by one.
Publish ==
    /\ \/ feed.version < MaxVersion /\ feed' = [version |-> feed.version + 1, uploaded |-> {}]
       \/ \E k \in Kinds \ feed.uploaded :
            feed' = [feed EXCEPT !.uploaded = @ \cup {k}]
    /\ ended' = [ended EXCEPT ![feed] = now]
    /\ UNCHANGED <<now, cache, holder, check>>

\* check_at_with takes the time, and the lock when it is free.
Ask(c) ==
    /\ check[c].pc = "idle"
    /\ \E forced \in BOOLEAN :
         check' = [check EXCEPT ![c] = [@ EXCEPT !.pc = "lock", !.forced = forced, !.at = now,
                                          !.answer = None]]
    /\ UNCHANGED <<now, feed, ended, cache, holder>>

Usable(c) ==
    /\ ~check[c].forced
    /\ cache.at # None
    /\ check[c].at - cache.at < TTL

Answers(c, a) == check' = [check EXCEPT ![c] = [@ EXCEPT !.pc = "idle", !.etag = None,
                                              !.answer = a]]

FromCache(c) ==
    /\ check[c].pc = "lock" /\ holder = None /\ Usable(c)
    /\ Answers(c, cache.release)
    /\ UNCHANGED <<now, feed, ended, cache, holder>>

BackingOff(c) ==
    /\ check[c].pc = "lock" /\ holder = None /\ ~Usable(c)
    /\ check[c].at < cache.until
    /\ Answers(c, None)
    /\ UNCHANGED <<now, feed, ended, cache, holder>>

Send(c) ==
    /\ check[c].pc = "lock" /\ holder = None /\ ~Usable(c)
    /\ check[c].at >= cache.until
    /\ holder' = c
    /\ check' = [check EXCEPT ![c].pc = "sent", ![c].etag = cache.etag]
    /\ UNCHANGED <<now, feed, ended, cache>>

\* refresh: nothing new, or a release that is valid, with or without an ETag.
NotModified(c) ==
    /\ check[c].pc = "sent" /\ check[c].etag = feed
    /\ cache' = [cache EXCEPT !.at = check[c].at, !.until = 0]
    /\ Answers(c, cache.release)
    /\ holder' = None
    /\ UNCHANGED <<now, feed, ended>>

Store(c) ==
    /\ check[c].pc = "sent" /\ check[c].etag # feed
    /\ \E etag \in {None, feed} :
         cache' = [release |-> feed, etag |-> etag, at |-> check[c].at, until |-> 0]
    /\ Answers(c, feed)
    /\ holder' = None
    /\ UNCHANGED <<now, feed, ended>>

\* The feed fails, or its answer is refused (validate_release); it may ask for a delay
\* (retry_delay).
Within(d) == IF d < Backoff THEN Backoff ELSE IF d > MaxBackoff THEN MaxBackoff ELSE d

Failed(c, d) ==
    /\ check[c].pc = "sent"
    /\ Answers(c, None)
    /\ holder' = None
    /\ UNCHANGED <<now, feed, ended>>

Fail(c) ==
    \E d \in 0..MaxBackoff :
      /\ Failed(c, d)
      /\ cache' = [cache EXCEPT !.until = check[c].at + Within(d)]

\* The client goes away: the check is dropped where it waits.
Drop(c) ==
    /\ check[c].pc \in {"lock", "sent"}
    /\ check' = [check EXCEPT ![c].pc = "idle", ![c].etag = None]
    /\ holder' = IF holder = c THEN None ELSE holder
    /\ UNCHANGED <<now, feed, ended, cache>>

Init ==
    /\ now = 0
    /\ feed = [version |-> 1, uploaded |-> {}]
    /\ ended = [r \in Releases |-> Later]
    /\ cache = [release |-> None, etag |-> None, at |-> None, until |-> 0]
    /\ holder = None
    /\ check = [c \in Checks |-> [pc |-> "idle", forced |-> FALSE, at |-> 0, etag |-> None,
                                  answer |-> None]]

Next ==
    \/ Tick \/ Publish
    \/ \E c \in Checks : \/ Ask(c) \/ FromCache(c) \/ BackingOff(c) \/ Send(c)
                         \/ NotModified(c) \/ Store(c) \/ Fail(c) \/ Drop(c)

Spec == Init /\ [][Next]_vars

-----------------------------------------------------------------------------
\* The cache, the lock and the checks have the values the code gives them.
TypeOK ==
    /\ cache.release \in Releases \cup {None}
    /\ cache.release = None => cache.etag = None /\ cache.at = None
    /\ holder # None => check[holder].pc = "sent"

\* A forced check is answered with a release the feed had when it was asked for or
\* later, any other with one that is older by less than the TTL (check_at_with): whatever waits for
\* the lock, fails or is dropped meanwhile.
AnswersAreRecent ==
    \A c \in Checks :
      check[c].answer # None =>
        \/ ended[check[c].answer] >= check[c].at
        \/ ~check[c].forced /\ ended[check[c].answer] > check[c].at - TTL
==============================================================================
