------------------------------- MODULE Images -------------------------------
(***************************************************************************)
(* Images of a transcript: stored with their bytes, sent to a phone as     *)
(* references, fetched one by one when tapped (src/image-blob.ts, GET      *)
(* /v1/blob of src/server/index.ts, ImageAttachmentView of                 *)
(* web/src/render/parts.tsx).                                              *)
(*                                                                         *)
(* A payload has a uuid (Null: one that can not go into a reference),      *)
(* content blocks, and perhaps a copy of an image in tool_use_result.  A   *)
(* block is a text, an image or a tool result of texts and images; an      *)
(* image's source is "base64", "url" or, once rewritten, "ref".  The bytes *)
(* of an image are named by its payload and where in it they are.  Left    *)
(* out: sizes, media types, accounts (WebChannel, Accounts).  The worker   *)
(* and the reader are external.                                            *)
(***************************************************************************)
EXTENDS Naturals, FiniteSets, Subsequences

CONSTANTS
    Events,        \* external: payloads [uuid, content, copy] the worker may post
    Null,
    HistoryLimit

VARIABLES
    pool,    \* PostgreSQL, or memory with its limit
    stored,  \* payloads kept, oldest first
    posting, \* the payload relayed and not yet stored, or Null
    posted,  \* external: payloads the worker has posted
    wire,    \* payloads as they were last sent to the phone
    cards    \* the phone's image attachments, each with its view

vars == <<pool, stored, posting, posted, wire, cards>>

-----------------------------------------------------------------------------
(* src/image-blob.ts                                                       *)

isImageBlock(b) == b.type = "image"
inner(b) == IF b.type = "result" THEN b.inner ELSE <<>>

\* The block at a place: <<i, 0>> a block of the payload's own, <<i, j>> one of
\* the tool result that is block i.
blockAt(p, at) == IF at[2] = 0 THEN p.content[at[1]] ELSE inner(p.content[at[1]])[at[2]]
Places(p) == UNION {{<<i, j>> : j \in 0..Len(inner(p.content[i]))} : i \in DOMAIN p.content}
ImagePlaces(p) == {at \in Places(p) : isImageBlock(blockAt(p, at))}

\* eachImage: where the images of a payload are, in the order of its blocks
\* and, within a tool result, of its own.
imagesOf(p, i) ==
    LET within == inner(p.content[i])
    IN  IF isImageBlock(p.content[i]) THEN << <<i, 0>> >>
        ELSE SubseqAt([j \in DOMAIN within |-> <<i, j>>], {j \in DOMAIN within : isImageBlock(within[j])})
eachImage(p) ==
    LET walk[i \in 0..Len(p.content)] == IF i = 0 THEN <<>> ELSE walk[i - 1] \o imagesOf(p, i)
    IN  walk[Len(p.content)]

hasImageBlobs(p) == \E k \in DOMAIN eachImage(p) : blockAt(p, eachImage(p)[k]).source = "base64"

\* Mutant of numberOf: a tool result numbers its images from 0.
numberInBlock(p, i, j) == Cardinality({l \in 1..j - 1 : isImageBlock(inner(p.content[i])[l])})

\* stripContentImageBlobs: the index of the image at (i, j), counted on from
\* block to block.
numberOf(p, i, j) ==
    Cardinality({at \in ImagePlaces(p) : at[1] < i \/ (at[1] = i /\ at[2] < j)})

rewriteBlock(p, b, i, j) ==
    IF b.source # "base64" THEN b
    ELSE [type |-> "image", source |-> "ref", ref |-> [uuid |-> p.uuid, n |-> numberOf(p, i, j)]]

stripContentImageBlobs(p) ==
    IF ~hasImageBlobs(p) \/ p.uuid = Null THEN p
    ELSE [p EXCEPT !.content = [i \in DOMAIN p.content |->
            LET b == p.content[i]
            IN  IF isImageBlock(b) THEN rewriteBlock(p, b, i, 0)
                ELSE IF b.type # "result" THEN b
                ELSE [b EXCEPT !.inner = [j \in DOMAIN b.inner |->
                        IF isImageBlock(b.inner[j]) THEN rewriteBlock(p, b.inner[j], i, j) ELSE b.inner[j]]]]]

\* Mutant of stripResultImageCopy: the copy Claude keeps of the call stays.
stripNoCopy(p) == p
stripResultImageCopy(p) == [p EXCEPT !.copy = FALSE]

stripImageBlobs(p) == stripResultImageCopy(stripContentImageBlobs(p))

bytesOf(p, at) == <<p.uuid, at>>

\* resolveImageBlob: the bytes of the image a reference numbers, or Null.
resolveImageBlob(p, n) ==
    LET images == eachImage(p)
    IN  IF n < Len(images) /\ blockAt(p, images[n + 1]).source = "base64" THEN bytesOf(p, images[n + 1]) ELSE Null

-----------------------------------------------------------------------------
(* The server.                                                             *)

\* What memory keeps: the newest HistoryLimit.
Kept(s) == IF pool \/ Len(s) <= HistoryLimit THEN s ELSE SubSeq(s, Len(s) - HistoryLimit + 1, Len(s))

\* Mutant of eventByUuid: the newest payload, whatever was asked for.
newestEvent(uuid) == IF stored = <<>> THEN Null ELSE stored[Len(stored)]
eventByUuid(uuid) ==
    LET found == {i \in DOMAIN stored : stored[i].uuid = uuid}
    IN  IF found = {} THEN Null ELSE stored[CHOOSE i \in found : \A k \in found : k <= i]

\* GET /v1/blob: the bytes, or Null for "not found".
Blob(ref) == IF eventByUuid(ref.uuid) = Null THEN Null ELSE resolveImageBlob(eventByUuid(ref.uuid), ref.n)

-----------------------------------------------------------------------------
(* The phone.                                                              *)

\* imageAttachmentsOf, of every tool result of a payload: one card per image
\* whose reference or bytes it has.  A card with bytes shows them.
attachments(p) ==
    UNION {{ [uuid |-> p.uuid, at |-> <<i, j>>,
              ref |-> IF p.content[i].inner[j].source = "ref" THEN p.content[i].inner[j].ref ELSE Null,
              view |-> IF p.content[i].inner[j].source = "ref" THEN "button" ELSE "shown",
              bytes |-> IF p.content[i].inner[j].source = "ref" THEN Null ELSE bytesOf(p, <<i, j>>)]
             : j \in {j \in DOMAIN inner(p.content[i]) :
                        /\ isImageBlock(p.content[i].inner[j]) /\ p.content[i].inner[j].source # "url"}}
           : i \in {i \in DOMAIN p.content : p.content[i].type = "result"}}

Init == pool \in BOOLEAN /\ stored = <<>> /\ posting = Null /\ posted = {} /\ wire = <<>> /\ cards = {}

\* POST /worker/events, as far as the relay, and from there.
Relay(p) ==
    /\ posting = Null /\ p \notin posted
    /\ posting' = p /\ posted' = posted \cup {p}
    /\ wire' = Append(wire, stripImageBlobs(p)) /\ cards' = cards \cup attachments(stripImageBlobs(p))
    /\ UNCHANGED <<pool, stored>>

Store ==
    /\ posting # Null /\ posting' = Null /\ stored' = Kept(Append(stored, posting))
    /\ UNCHANGED <<pool, posted, wire, cards>>

StoreFails ==
    /\ pool /\ posting # Null /\ posting' = Null
    /\ UNCHANGED <<pool, stored, posted, wire, cards>>

\* The session is opened again: a backfill, and none of the cards of before.
Reopen ==
    /\ wire # [i \in DOMAIN stored |-> stripImageBlobs(stored[i])]
    /\ wire' = [i \in DOMAIN stored |-> stripImageBlobs(stored[i])]
    /\ cards' = UNION {attachments(wire'[i]) : i \in DOMAIN wire'}
    /\ UNCHANGED <<pool, stored, posting, posted>>

\* Mutant of Loaded: the card shows whatever came.
LoadedAnyway(c, bytes) == [c EXCEPT !.view = "shown", !.bytes = bytes]
\* ImageAttachmentView: an image that does not load stays so.
Loaded(c, bytes) ==
    IF bytes = Null THEN [c EXCEPT !.view = "failed"] ELSE [c EXCEPT !.view = "shown", !.bytes = bytes]

\* The reader taps a card.
Tap(c) ==
    /\ c \in cards /\ c.view = "button"
    /\ cards' = (cards \ {c}) \cup {Loaded(c, Blob(c.ref))}
    /\ UNCHANGED <<pool, stored, posting, posted, wire>>

Next ==
    \/ \E p \in Events : Relay(p)
    \/ Store \/ StoreFails \/ Reopen
    \/ \E c \in cards : Tap(c)

Spec == Init /\ [][Next]_vars

-----------------------------------------------------------------------------
(* Properties.                                                             *)

TypeOK ==
    /\ \A i \in DOMAIN stored : stored[i] \in posted
    /\ posting \in posted \cup {Null} /\ posted \subseteq Events
    /\ \A c \in cards : /\ c.view \in {"button", "shown", "failed"}
                        /\ (c.view = "shown") = (c.bytes # Null)

\* The server and the web agree on what a reference stands for: an image that
\* is shown is the one that was there.
RightImage == \A c \in cards : c.view = "shown" => c.bytes = <<c.uuid, c.at>>

\* A reference to a payload that is kept can be fetched, whichever payloads
\* share the session with it.
KeptResolves ==
    \A c \in cards : c.ref # Null /\ (\E i \in DOMAIN stored : stored[i].uuid = c.uuid) => Blob(c.ref) # Null

\* "Neither the history backfill nor the live relay may push them at a phone":
\* no bytes are sent, in a block or in the copy of the call, of a payload
\* whose images a reference can name.
NoBytesSent ==
    \A i \in DOMAIN wire : ~wire[i].copy /\ (wire[i].uuid # Null => ~hasImageBlobs(wire[i]))

=============================================================================
