-------------------------- MODULE JadavStoreProps --------------------------
(***************************************************************************)
(* What the store of JadavStore promises the clients that sync from it.    *)
(***************************************************************************)
EXTENDS JadavStore

\* A token of the calendar as it exists now, whose client was told nothing for a
\* predecessor's token that equals the baseline, or was swapped in mid-REPORT, and
\* nothing across a compaction.
Trusts(c, s) ==
    /\ cal[s].live
    /\ tok[c][s] # 0 /\ minted[c][s] = inc[s]
    /\ \A w \in misled[c] : w[2] # s

\* A client whose sync token covers the last change of a member holds that member
\* as the store has it: nothing a REPORT left out, read too early or compacted
\* away makes a client believe it is up to date (store.rs:27-31), and an id is never
\* handed out twice, so a predecessor's token falls behind the baseline and is refused.
\* Excepted are a REPORT a compaction crosses, and a predecessor's token that is
\* exactly the new baseline or whose calendar is replaced between two reads.
ViewCurrent ==
    \A c \in Client, s \in Slug, h \in Href :
        Trusts(c, s) /\ lastId[s][h] <= tok[c][s] => view[c][s][h].doc = Content(s, h)

\* No token, of this calendar or of an earlier one of the same name, is ahead of
\* the head: the head moves neither back under compaction (ctag, store.rs:1116)
\* nor when a calendar is created again (change_log_high_water, store.rs:2243).
TokensBehindHead ==
    \A c \in Client, s \in Slug, n \in 0 .. seq :
        cal[s].live /\ IsHead(s, n) => tok[c][s] <= n

\* The newest row the log keeps of an href tells whether the member exists, through
\* soft deletes, their retirement and their finalisation.
LogTellsState ==
    \A s \in Slug : \A r \in Latest(s) : r.deleted <=> Content(s, r.href) = NoDoc

\* No two rows of a calendar hold one UID, soft-deleted ones included: the checks of
\* put_object_with never run into UNIQUE (calendar_slug, uid).
UidUnique ==
    \A s \in Slug, g, h \in Href, u \in Uid : Holds(s, g, u) /\ Holds(s, h, u) => g = h

\* The collection as its clients are to see it: what they may believe is the
\* number of their token, as long as the token is an honest one.
ContractOf(s) ==
    INSTANCE SyncContract
        WITH Member    <- Href,
             Reader    <- Client,
             Document  <- Doc,
             Nothing   <- NoDoc,
             docs      <- [h \in Href |-> Content(s, h)],
             changedAt <- lastId[s],
             count     <- seq,
             copy      <- [c \in Client |-> [h \in Href |-> view[c][s][h].doc]],
             heard     <- [c \in Client |-> IF Trusts(c, s) THEN tok[c][s] ELSE 0]

\* Through the log, its tombstones, soft deletes, compaction, calendars made
\* again and reports of many statements, every step of the store is a step of
\* the contract, for every calendar.
ServesContract ==
    /\ \A s \in Slug : ContractOf(s)!ContractInit
    /\ [][\A s \in Slug : [ContractOf(s)!ContractNext]_(ContractOf(s)!contractVars)]_vars
============================================================================
