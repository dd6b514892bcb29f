----------------------------- MODULE Enrichment -----------------------------
(***************************************************************************)
(* The full text of one article (sources/english_tier1.py:                 *)
(* poll_due_streams, fetch_stream, _enrich_articles; observer.py: record   *)
(* and the queries a poll begins with).                                    *)
(*                                                                         *)
(* A poll asks the store what is known of the article, fetches the feed,   *)
(* which has a summary of it, fetches the page if the article is a live    *)
(* arrival or has changed, and records what it has put together.  The      *)
(* polls of several streams of a provider run side by side and may list    *)
(* the same article.  An edit may move the article to another address, and *)
(* into or out of those whose pages are asked for.  That no more than a    *)
(* few pages are fetched in a poll is one way in which the page is not     *)
(* fetched; a page is found at the address a feed has shown, or it fails.  *)
(***************************************************************************)
EXTENDS Naturals

CONSTANTS
    Feeds,         \* streams of the provider that list the article
    Addresses,     \* source_url
    Unknown,       \* nothing known
    Bare,          \* the text of an article without its page
    MaxEdition,    \* bound: versions of the article
    MaxFailures,   \* bound: pages that could not be fetched
    MaxCuts        \* bound: captures whose second transaction is missing

Texts == {Bare} \cup 1..MaxEdition
Contents == [version : 1..MaxEdition, shown : BOOLEAN, text : Texts]
Editions == [address : Addresses, wanted : BOOLEAN]
Pages == [version : 1..MaxEdition, text : 1..MaxEdition]

ASSUME EnrichmentAssumption ==
    /\ MaxEdition \in Nat \ {0} /\ {MaxFailures, MaxCuts} \subseteq Nat
    /\ Bare \notin Nat /\ Unknown \notin Contents \cup Pages \cup {"baseline", "new"}

VARIABLES
    version,     \* the version on the provider's site, 0 before it is published
    edition,     \* the address of each version, and if its page is asked for
    early,       \* its time of display lies in the future
    poll,        \* the poll of each stream
    based,       \* observer_streams: streams that have been captured
    latest,      \* the latest revision
    sighted,     \* the state of the first sighting
    enriched,    \* observer_enrichments: the last one with a marker
    failures, cuts

mischances == <<failures, cuts>>
article == <<version, edition, early>>
textVars == <<article, poll, based, latest, sighted, enriched, mischances>>

NoPoll == [pc |-> "idle"]

TextInit ==
    /\ version = 0 /\ edition = [v \in 1..MaxEdition |-> Unknown] /\ early = FALSE
    /\ poll = [s \in Feeds |-> NoPoll] /\ based = {}
    /\ latest = Unknown /\ sighted = Unknown /\ enriched = Unknown
    /\ failures = 0 /\ cuts = 0

PollAt(s, pc) == poll[s].pc = pc
-----------------------------------------------------------------------------
(***************************************************************************)
(* The provider                                                            *)
(***************************************************************************)
Updates ==
    /\ version < MaxEdition /\ version' = version + 1
    /\ \E new \in Editions : edition' = [edition EXCEPT ![version + 1] = new]
    /\ early' \in IF version = 0 THEN BOOLEAN ELSE {early}
    /\ UNCHANGED <<poll, based, latest, sighted, enriched, mischances>>

ClocksAgree ==
    /\ early /\ early' = FALSE
    /\ UNCHANGED <<version, edition, poll, based, latest, sighted, enriched, mischances>>
-----------------------------------------------------------------------------
(***************************************************************************)
(* A poll                                                                  *)
(***************************************************************************)
\* latest_enrichments
OnFile == enriched

\* Mutant: only what is not known at all is a live arrival.
Arrival_Unknown == latest = Unknown

\* known_source_ids, non_baseline_source_ids
Arrival == latest = Unknown \/ sighted # "baseline"

\* has_stream_baseline and, if there is one, the other queries.
Looks(s) ==
    /\ PollAt(s, "idle")
    /\ poll' = [poll EXCEPT ![s] =
           [pc |-> "feed", based |-> s \in based, live |-> Arrival, onFile |-> OnFile]]
    /\ UNCHANGED <<article, based, latest, sighted, enriched, mischances>>

Unchanged(p) == p.onFile # Unknown /\ p.onFile.version = version

\* _is_enrichable_live_record: by the importance and words of a headline, or the
\* form of the address.
Enrichable == edition[version].wanted

WantsPage(p) == p.based /\ ~Unchanged(p) /\ (p.onFile # Unknown \/ p.live) /\ Enrichable

Address(v) == edition[v].address
HasMoved(p) == Address(p.onFile.version) # Address(version)

\* Mutant: the text on file is used for the version it was fetched for only.
Text_SameVersion(p) == IF p.based /\ Unchanged(p) THEN p.onFile.text ELSE Bare

\* Without a new page the text on file is used again, of whatever version, if it is
\* that of the same address.
Text(p) == IF p.based /\ p.onFile # Unknown /\ ~HasMoved(p) THEN p.onFile.text ELSE Bare

\* The feed, which lists the article once it is published.
FetchesFeed(s) ==
    /\ PollAt(s, "feed")
    /\ poll' = [poll EXCEPT ![s] =
           IF version = 0 THEN [pc |-> "record", listed |-> FALSE]
           ELSE [pc |-> IF WantsPage(@) THEN "page" ELSE "record", listed |-> TRUE,
                 version |-> version, early |-> early, text |-> Text(@), page |-> FALSE]]
    /\ UNCHANGED <<article, based, latest, sighted, enriched, mischances>>

\* With a new page the feed is parsed again, as of the time of the page.
FetchesPage(s) ==
    /\ PollAt(s, "page")
    /\ poll' = [poll EXCEPT ![s] =
           [@ EXCEPT !.pc = "record", !.text = version, !.page = TRUE, !.early = early]]
    /\ UNCHANGED <<article, based, latest, sighted, enriched, mischances>>

PageFails(s) ==
    /\ PollAt(s, "page") /\ failures < MaxFailures /\ failures' = failures + 1
    /\ poll' = [poll EXCEPT ![s].pc = "record"]
    /\ UNCHANGED <<article, based, latest, sighted, enriched, cuts>>

Content(p) == [version |-> p.version, shown |-> ~p.early, text |-> p.text]

SightedAs(s) ==
    IF sighted # Unknown THEN sighted ELSE IF s \notin based THEN "baseline" ELSE "new"

\* record, first transaction.
Captured(s) ==
    /\ PollAt(s, "record") /\ based' = based \cup {s}
    /\ IF poll[s].listed THEN latest' = Content(poll[s]) /\ sighted' = SightedAs(s)
       ELSE UNCHANGED <<latest, sighted>>

Kept(p) == [version |-> p.version, text |-> p.text]

\* Both transactions, between which no reader of the process gets the lock.
Writes(s) ==
    /\ Captured(s) /\ poll' = [poll EXCEPT ![s] = NoPoll]
    /\ enriched' = IF poll[s].listed /\ poll[s].page THEN Kept(poll[s]) ELSE enriched
    /\ UNCHANGED <<article, mischances>>

\* The process ends between them, and the polls with it.
WritesHalf(s) ==
    /\ Captured(s) /\ cuts < MaxCuts /\ cuts' = cuts + 1
    /\ poll' = [x \in Feeds |-> NoPoll]
    /\ UNCHANGED <<article, enriched, failures>>

Polls(s) == Looks(s) \/ FetchesFeed(s) \/ FetchesPage(s) \/ Writes(s)

TextNext ==
    \/ Updates \/ ClocksAgree
    \/ \E s \in Feeds : Polls(s) \/ PageFails(s) \/ WritesHalf(s)

TextSpec == TextInit /\ [][TextNext]_textVars

\* Every stream is polled in a loop, each request has a time-out.
TextFairSpec == TextSpec /\ \A s \in Feeds : WF_textVars(Polls(s))
-----------------------------------------------------------------------------
(***************************************************************************)
(* Properties                                                              *)
(***************************************************************************)
\* The state keeps its shape, and no page is on file that is newer than the site
\* or older than the version of the feed that led to it.
EnrichmentTypeOK ==
    /\ version \in 0..MaxEdition /\ early \in BOOLEAN /\ based \subseteq Feeds
    /\ \A v \in 1..version : edition[v] \in Editions
    /\ sighted \in {Unknown, "baseline", "new"} /\ (latest = Unknown <=> sighted = Unknown)
    /\ latest # Unknown =>
         latest.version \in 1..version /\ latest.text \in {Bare} \cup 1..version
    /\ enriched # Unknown => 1 <= enriched.version /\ enriched.version <= enriched.text

\* One stream only has shown the article, and no capture was cut off.
Alone == cuts = 0 /\ \A s, o \in based : s = o

\* An article that has its full text does not go back to the summary, whatever
\* fails and whatever changes at the provider but its address, as long as it is
\* shown by one stream.
Stays == Address(latest.version)' = Address(latest.version)
KeepsFullText == latest # Unknown /\ latest.text # Bare /\ Stays => latest'.text # Bare
NeverRegresses == [][Alone' => KeepsFullText]_textVars

\* A revision has a reason: the provider's version is newer, the text is that of a
\* newer page, or the time of display has come.
Genuine ==
    latest # Unknown /\ latest' # latest =>
        \/ latest'.version > latest.version
        \/ latest'.text # Bare /\ (latest.text = Bare \/ latest'.text > latest.text)
        \/ latest'.shown /\ ~latest.shown
RevisionsAreGenuine == [][Alone' => Genuine]_textVars

\* "Never fetches historical baseline archive items" (_enrich_articles): true as long
\* as no second stream takes its backlog in while a poll of the first is under way.
ArchiveIsNotFetched ==
    (\A s, o \in based : s = o) /\ enriched # Unknown => sighted # "baseline"

\* The text of an article is kept, and replaced for a reason only.
TextIsKept ==
    /\ [](EnrichmentTypeOK /\ ArchiveIsNotFetched)
    /\ NeverRegresses
    /\ RevisionsAreGenuine

\* A live arrival whose page is asked for gets its full text and ends up with it,
\* although its page failed, it was moved, its capture was cut off or another stream
\* had it without.
HasFullText == latest # Unknown /\ latest.text # Bare
FullTextArrives == <>[](sighted = "new" /\ Enrichable => HasFullText)
=============================================================================
