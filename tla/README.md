# GPConnect, a TLA+ model of the back end

GPConnect is a NestJS application on PostgreSQL (Prisma).  Shippers and
carriers publish advertisements, negotiate offers in conversations, engage a
mission, exchange one-time codes at pickup and delivery, and may contest a
mission, which an administrator then arbitrates.  Around this marketplace the
back end keeps accounts and their contacts, sessions, verified identities,
files, blocks, appointments, ratings and reports, and a gateway that tells the
parties of a conversation what was written.

Every handler is a sequence of awaited database statements and of calls to
external services, so any two requests interleave between any two statements.
The code has no queue and no lock of its own: it relies on `updateMany` with the
expected status in the `WHERE`, on unique keys, on foreign keys and on
`$transaction`.  This project models those handlers statement by statement and
asks which promises survive the interleavings, the deletions, late or repeated
webhooks and a restart of the process.

All paths below are relative to the repository; `src/missions/...` is the
NestJS source, `prisma/schema.prisma` the schema.

## Inventory

| component | state it keeps | operations | where it is hard |
|---|---|---|---|
| advertisements | type, author, status OPEN / IN_PROGRESS / COMPLETED | publish, edit, delete, search | status written by acceptance, delivery, cancellation and arbitration, which may reopen it; delete cascades to missions; a page is two queries |
| conversations | trio (advertisement, shipper, carrier), mission, who hid it | open, remove, list | shared dossier mission; double opening; concurrent removal; hard delete |
| messages | messages, offers, appointments, media | send, edit, delete | wakes a conversation up with two extra statements; edit races acceptance |
| offers | PENDING / ACCEPTED / REJECTED, price, mission | accept, reject | concurrent acceptances; values read before the transaction |
| missions | status machine, carrier, price, packages | create, packages, cancel, delete | status write and side effects are two transactions |
| proof | code, used, attempts per mission and kind; images | generate, submit, images | status check and status write are two requests to the database |
| disputes | OPEN / RESOLVED per mission, ticket of a tracker | open, resolve | races with codes and cancellations; tracker answers late |
| transactions | PENDING / COMPLETED / CANCELLED, amount | read, change the method | created, completed and cancelled by four other components |
| users | email, pending email, phone, their badges, avatar | register, edit, avatar, delete | badge reset by comparing with an earlier read; redaction before a delete that may be refused |
| contact verification | tokens: codes and links | send, confirm | delete then insert: several tokens valid at once; a pending address read before it is written |
| auth | linked profiles; cookies (no table of sessions) | code, Google, Apple, Facebook, refresh, logout | find, create and link are three statements; badge written without being awaited |
| identity | status of the provider's session, badge of the user | session, webhook, redaction | several sessions, webhooks late, twice and in any order; one row per provider |
| packages, medias | package status, files and their rows | create, upload, delete | storage and database written by two calls, discards side by side |
| appointments, reports | one decision per row | propose or file, decide | double decision; second read for the answer; the back office edits the status of a report |
| blocks | pairs of users | block, unblock | checked before the write it must prevent |
| ratings | one per mission and rater | rate | inserted from an earlier read of the mission |
| chat | sockets and rooms, in memory | connect, join, leave, type, announce | a join awaits a query; announcements follow the commits |
| addresses | coordinates (unique), geographic point | find or create, edit | the point is a second statement |
| admin panel | nothing of its own | resolve a dispute, edit the status of a report or the text of a resolution, read the rest | its edit of a report bypasses the `WHERE` of the service |
| email, phone, common | nothing | output, guards | nothing a model would find |

Interaction: controllers check a request and call one service; services share
the tables directly (proofs write missions, packages, advertisements and
transactions; disputes call `MissionsService.applyStatusSideEffects`; auth marks
the badges of users; the deletion of a user calls identity), and announce what
they committed through an event emitter to the chat gateway.

What makes the components correct, and the property that says so:

* one mission, one deal: `OneAcceptedOfferPerMission`, `AcceptedOfferStands`,
  `AcceptedOfferBinds`, `PaymentMatchesDeal`, and all of them as the refinement
  `ImplementsLedger`;
* a conversation leads to the right mission: `PartiesConsistent`;
* a contested mission can be arbitrated: `DisputedHasOpenDispute`;
* a cancelled mission does not leave its payment pending:
  `CancelledIsSettledOrOwed`, `CancelledIsEventuallySettled`;
* codes are guessed a bounded number of times: `AttemptsBounded`;
* one request at a time, the documented state machine: `ImplementsContract`,
  `OpenDisputeIffDisputed`, `AdFollowsSoleMission`, `EngagedPackagesFrozen` (of
  sequences only: two requests at once may break them, and `claim_parcels` does
  so);
* what is shown as verified was proven: `VerifiedEmailWasProven`,
  `UnprovenPhoneIsStale`, `BadgeWasEarned`, and the status shown agrees with the
  badge that gates acceptance: `VerdictDecidesBadge`;
* nobody enters an account of another: `UnattestedStaysApart`; the session of a
  deleted account ends: `ErasedSessionEnds`;
* what is shown is stored, what is deleted is gone: `ShownImagesAreStored`,
  `ErasedMediaHasNoFile`;
* a block is obeyed, a decision stands and is the one announced:
  `NoContactAcrossBlock`, `DecisionsStand`, `AnnouncedDecisionStands`,
  `ConversationsStayPrivate`;
* a search misses nothing: `PagesCoverSearch`, `SearchableOrOwed`;
* after a mission: `RatingsMatchDeal`, `TicketTellsVerdict`.

## Modules

The marketplace (one database, requests in slots):

| module | code | content |
|---|---|---|
| `Store` | `prisma/schema.prisma` | rows of the tables, NOT NULL columns, foreign keys of a deleted mission, requests in flight |
| `Advertisements` | `advertisements.service.ts`, `.controller.ts` | `PublishAd`, `DeleteAd` |
| `Conversations` | `conversations.*.ts` | opening (read, then write), removal (read, then hide or erase) |
| `Messages` | `messages.*.ts` | offers sent (insert, wake, revive), edited, deleted |
| `Offers` | `offers.service.ts` | acceptance (read, badge, read, commit), rejection |
| `Missions` | `missions.*.ts` | creation, packages, deletion, cancellation (write, read again, effects) |
| `Proofs` | `proof.service.ts` | codes generated and submitted |
| `Disputes` | `disputes.service.ts` | opening and resolution, with the effects of `Missions` |
| `Identity` | `identity.service.ts` | the badge as webhooks change it |
| `Marketplace` | `app.module.ts` | the composition, `Spec`, `FairSpec`, safety and liveness |
| `Aftercare` | `ratings.service.ts`, `disputes.service.ts`, `github-issues.tracker.ts` | `Marketplace` with ratings and the ticket of a dispute |
| `EngagementLedger` | | abstract specification of deals and payments |
| `SerialMarketplace`, `MissionContract` | `DOCUMENTATION.md` as the intent | what holds one request at a time, and the state machine the parties are told |
| `Claims` | | what comments say and runs refute |
| `MCMarketplace`, `MCAftercare` | | instances for TLC |
| `EngagementProofs` | | proofs: types, deals and payments, the ledger |
| `StandingProofs` | | proofs: conversations, disputes, attempts, debts, acceptances that stand |
| `AftercareProofs` | | proofs: what an engaged mission may become, ratings, tickets |
| `SerialProofs` | | proofs: one request at a time, the contract, disputes, advertisements, packages |

The parts around it (the same database, other tables; requests in workers):

| module | code | content |
|---|---|---|
| `Traffic` | | requests, workers and mixes of requests |
| `Contacts` | `user-verification.service.ts`, `users.service.ts`, `auth.service.ts` | accounts, links and codes, changes of address and number |
| `Login` | `auth.service.ts`, `auth.controller.ts`, strategies | codes, profiles of providers, cookies |
| `IdentitySessions` | `identity.service.ts`, `users.service.ts` | sessions, webhooks, redaction, deletion of an account |
| `Uploads` | `medias.service.ts`, `packages.*.ts`, avatars, images of proofs | files and rows |
| `Exchanges` | `blocks`, `conversations`, `messages`, `appointments`, `reports`, `admin-panel.module.ts` | contact under blocks, decisions, the edit of a report in the back office |
| `Rooms` | `chat.gateway.ts` | sockets, rooms, announcements |
| `Catalogue` | `addresses.service.ts`, `advertisements.service.ts`, `missions.service.ts` | address lookup, paged search, advertisements that leave the search and come back |
| `Platform` | `app.module.ts` | the composition, restarts, `Spec`, `FairSpec` |
| `MCPlatform` | | instances for TLC |
| `PlatformFrames` | | proofs: what each handler leaves alone |
| `ExchangesProofs`, `AccountsProofs`, `UploadsProofs` | | proofs: blocks, decisions, rooms and searches; accounts and identities; files |

A table is a function from identifiers to rows; an identifier whose row was
never inserted is `absent`, one whose row was deleted is `erased` and is never
used again (a row of `token` is free again once no request names it).

In the marketplace `req[s]` is the request in slot `s`: `at` names its next
statement, the other fields are the values its handler still holds in local
variables.  `OpenX`, `SendX`, `AcceptX` ... begin a request with its first read
and guards; a request that its guards refuse there changes nothing and is not
begun.  `WriteX`, `CommitX` ... are its later statements.  `Restart` empties
the slots and keeps the tables.

In the platform `task[w]` plays the same part for worker `w`: `Start` puts the
frame of a handler there, `Then` goes on to its next statement, `Answer` ends
it.  `Arrives(kind)` says that the load of the behaviour has requests of that
kind.  History variables hold what no table does: `proven` (who answered from
which address), `stale` (which numbers were marked or overwritten after a read
of another one), `maker` (which profile created an account), `crossed` (blocks
that stood during a whole request and did not stop it), `heard` (what each
socket received), `verdict` (the outcome each resolution committed).  No guard
reads them.

`Fault:` marks a definition that no action uses: it is the form a plausible
mistake would give to the definition after it, and each property is shown to
fail under one of them.

Abstractions, all of which keep the control of the handlers:

* A `$transaction` is one step, taken when it commits.  Under READ COMMITTED a
  reader may see other commits between its statements; the only decision taken
  on an unlocked read inside a transaction is the one of `applyAcceptance`,
  which is a step of its own (`ReadMissionToAccept`).
* Expiry of codes and, in the marketplace, of advertisements, weights and rate
  limits can only refuse a request.  As requests are never forced to happen, they
  need no state in the model.
* The controller's read of a cancellation is merged with the read of the
  transition matrix, which refuses more.
* `negotiated_price` has the default 0 in the schema; a mission that is not
  engaged has the price `None`.
* The submitted code is right or wrong; the hash is compared with the row that
  was loaded, as in the code.
* Whoever opens a link or types a code has received the message; what is sent
  to an address is read there or not at all.  A code and its hash are abstracted
  to whom they were sent.
* A profile is one whose token passed the checks of signature, issuer, audience
  and application.  The code takes the address of Facebook and of the Google
  redirection as attested; the model does as the code does.
* The provider of identities, the storage, the tracker and the SMS gateway are
  external: a call to them succeeds or fails, and events are never taken out of
  the provider's set, so that they come late, twice and in any order.
* Coordinates are spots, two of which are never near each other; a search is in
  the default order.  Rows with the same price or date have no order in the
  code, so the other orders are not modelled.
* An advertisement of the catalogue leaves the search and comes back
  (`Withdraw`, `Reopen`) whenever its load has such requests: its missions, whose
  acceptance, cancellation and arbitration do it, are those of the marketplace,
  and its dates, which do it too, are not kept.  `board` has every advertisement
  ever inserted, in the order of creation, and a search shows those that are OPEN.
* Package statuses IN_TRANSIT and DISPUTED, the advertisement status CLOSED and
  the conversation status DRAFT are never written by the code and are left out.

## Runs

`Ops` selects the operations of an instance of the marketplace; a run has all
those that can interfere with its question.  Its users are `ann` (the author of
the advertisements and owner of the parcel), `bob` and, where two candidates
compete, `eve`.  The instance of the platform has instead a set of `Loads`: one
is chosen at the start of a behaviour and says which kinds of requests arrive,
who has an account and what forms are filled with.  Deadlock checking is off
because the system may stop: nobody has to send a request, and identifiers run
out (a bound).

| run | module | instance | question |
|---|---|---|---|
| `acceptance` | `MCMarketplace` | 3 users, 1 SHIPPING advertisement, its dossier, 2 offers, 2 prices, 2 slots | concurrent acceptances, rejections and edits |
| `erasure` | `MCMarketplace` | 2 advertisements of both types, 2 missions, 1 offer, 2 slots | deletions under a negotiation |
| `transport` | `MCMarketplace` | 1 mission, 1 parcel, 2 codes, 2 attempts, 2 slots, restarts | codes, cancellation, dispute, resolution, packages |
| `settlement` | `MCMarketplace` | 1 mission, 2 slots, fairness, no restart | payment of a cancelled mission |
| `serial` | `MCMarketplace` | 2 missions, every operation but the restart, 1 slot | the documented state machine |
| `aftercare` | `MCAftercare` | 1 mission, 2 slots, restarts | ratings and tickets beside the life of the mission |
| `platform` | `MCPlatform` | 19 loads, 2 workers, fairness of time, restarts | everything around the negotiation |
| `claim_documents` | `MCPlatform` | 1 user, 2 sessions, 1 worker | finding |
| `claim_cancellation`, `claim_transport`, `claim_price`, `claim_parcels` | `MCMarketplace` | the smallest instance that shows the divergence | findings |

Bounds of the marketplace: two slots show every race of two requests, which is
what the optimistic writes of the code are there to decide.  A race of three is
another matter: what is proved below holds for any number of slots, and the one
race of three that was met is excluded by name in `RatingsMatchDeal` (see
`StaysDelivered`), which was also run with three slots.  `MaxCodes` bounds the codes generated
per proof (two, so that one is regenerated after use), `MAX_OTP_ATTEMPTS` is 2
or 1 instead of 5 so that the limit is reached.  A pair that erased its
conversation does not open a new one.  Rows and slots are interchangeable, so
the safety runs use symmetry; the liveness run does not.  The two prices of
`acceptance` and `claim_price` let an edit be visible.

Bounds of the platform: 3 users, 3 addresses and 2 numbers (so that an address
can be free, taken or a placeholder), 2 tokens alive at once (two requests for a
code or a link), 3 profiles (one of Google that is confirmed, one of Apple that
has the same address and is not, one of Facebook without an address), 2
sessions, 2 images, 3 hosts (a package, a message, a proof), 1 conversation with
1 message, 2 blocks (set and set again, or one of each side), 1 report, 2
sockets, 3 advertisements at 1 spot, pages of 1 or 3 rows with `MaxLimit` 2
instead of 50, so that a limit is cut, a search has several pages and a row that
comes back lands between two others.  A load
mixes the requests that read or write a common table, and leaves out those that
share none with them: the parts of the platform meet in the account and in its
tokens only.  Within a load every request may arrive at any time, any number of
times.

Fairness: `FairSpec` of `Marketplace` has weak fairness of `Continue(s)` for
every slot, and of nothing else.  A statement sent to the database is answered,
with a result or an error, and Node.js resumes the handler; no request is assumed
to arrive.  That run has no restart: after one, nothing in the code resumes a
request (that is the finding `claim_cancellation`).  `FairSpec` of `Platform`
has weak fairness of `AccessExpires(u)` only: time passes, so a token that was
signed expires.  `ErasedSessionEnds` needs no more, because a refresh asks
whether the account exists and every other signature follows a read of it; a
sign-in that was in flight when the account went may still sign once, and that
token expires too.

## Findings

* `claim_cancellation`: a restart between the status write of a cancellation
  and its side effects leaves the mission CANCELLED with its payment PENDING,
  and the transition matrix admits no repair (`missions.service.ts:178-194`,
  against the comment at 223-225).
* `claim_transport`: a pickup code verified while the mission is cancelled
  overwrites CANCELLED with IN_TRANSIT; the mission travels with a CANCELLED
  payment (`proof.service.ts:281-284`, against `DOCUMENTATION.md:338`).
* `claim_price`: an edit of the offer between the first read and the commit of
  its acceptance (`offers.service.ts:79-87`, against `messages.service.ts:131-133`).
* `claim_parcels`: packages join a mission after its acceptance, through a
  check made by an earlier read (`missions.service.ts:146-157`, against
  `missions.controller.ts:100-102`).
* `claim_documents`: the row of an identity names the session written last; a
  user who started two sessions leaves the documents of the first with the
  provider when the account is deleted (`identity.service.ts:218`, against the
  comment at 168-170).

Met while reading, and part of the models or of the hazards, without a document
that says otherwise or without a property that forbids it:

* `DOCUMENTATION.md:285` and `:416` say that packages may be added to an
  ACCEPTED mission; the controller admits PENDING only.
* The badge of a phone is written by a call nobody awaits and reset by comparing
  with an earlier read: two changes at once keep the badge for a number nobody
  proved.  `UnprovenPhoneIsStale` says that it takes such a race.
* Two links, or two codes, are valid at once when two requests both delete
  before either inserts.  A link confirms the address it was sent to all the
  same; a change of address asked for between the read and the commit of a link
  is lost, and its own link is then accepted without effect.
* A sign-in that stops between the creation of an account and the link of the
  profile leaves an account that an unattested profile cannot enter again.
* A late `requires_input` or `canceled` of one session overwrites the VERIFIED of
  another; `VerdictDecidesBadge` says that status and badge then agree, up to
  `requires_input`, which keeps the badge.
* Orphans in the storage: the first of two concurrent avatars, an upload whose
  host vanished or whose handler was lost, and the images of deleted messages,
  missions and accounts.  The images of a package go even if a mission takes the
  package before its row is deleted.
* A ticket whose number comes after the resolution of its dispute stays open.
* A mission that was rated while COMPLETED may still be disputed and cancelled.
* Three requests can move a mission back: two submissions load the same pickup
  code, one commits, a code that was asked for before the commit is written and
  resets `used`, the mission is delivered and rated, then the second submission
  commits and writes IN_TRANSIT over COMPLETED.  The comment at
  `proof.service.ts:166-171` says that two submissions of one valid code cannot
  move the mission twice; it holds as long as no code is generated in between.
* A socket stays connected after its token expired or its account was deleted.
* The back office may overwrite the status of a report that was resolved
  (`admin-panel.module.ts:149-158`): it asks nothing of the row, while
  `reports.service.ts:52-55` takes care that two resolutions do not.
  `DecisionsStand` names it as the only way a decided report changes.
* A row that comes between the two queries of one page may hide another one
  from the reader (`PagesCoverSearch` excludes that case by name).

## Proofs

Each theorem holds for every value of the constants that satisfies the named
assumptions, whatever the number of users, rows, slots and workers.

The marketplace.  `Store` assumes that identifiers and `None` are what they look
like (`IdsAssumption`, `NoneAssumption`) and that the bounds are numbers
(`BoundsAssumption`); nothing is assumed finite but the slots.

| theorem | statement |
|---|---|
| `EngagementInvariant` | `Spec => []EngagementInv` |
| `TypeInvariant` | `Spec => []TypeOK` |
| `OneAcceptedOffer` | `Spec => []OneAcceptedOfferPerMission` |
| `AcceptedOffersBind` | `Spec => []AcceptedOfferBinds` |
| `PaymentsMatchDeals` | `Spec => []PaymentMatchesDeal` |
| `LedgerIsImplemented` | `Spec => ImplementsLedger` |
| `StandingInvariant` | `Spec => []StandingInv` |
| `ConversationsSuit` | `Spec => []PartiesConsistent` |
| `DisputesAreOpen` | `Spec => []DisputedHasOpenDispute` |
| `AttemptsAreBounded` | `Spec => []AttemptsBounded` |
| `SettlementIsOwed` | `Spec => []CancelledIsSettledOrOwed`, if `"restart"` is not among `Ops` |
| `AcceptanceStands` | `Spec => AcceptedOfferStands` |
| `CareInvariant` | `AftercareSpec => []CareInv` |
| `RatingsStayTrue` | `AftercareSpec => []RatingsMatchDeal` |
| `TicketsTellVerdicts` | `AftercareSpec => []TicketTellsVerdict` |
| `SerialInvariant` | `Spec => []SerialInv`, one slot |
| `DisputesFollowMissions` | `Spec => []OpenDisputeIffDisputed`, one slot |
| `AdsFollowMissions` | `Spec => []AdFollowsSoleMission`, one slot, if `"restart"` is not among `Ops` |
| `PackagesFreeze` | `Spec => EngagedPackagesFrozen`, one slot |
| `ContractIsImplemented` | `Spec => ImplementsContract`, one slot |

`TypeOK` is not inductive: a resolution writes the outcome into
the mission of its dispute, and only the foreign key (`DisputesAttached`) says
that the mission has not been erased.  `OneAcceptedOfferPerMission` is not
inductive either: a second acceptance is refused because the mission has a
payment, so the invariant must say that accepted offers name missions with a
payment (`DealsArePaid`), and that a request in the middle of an acceptance
still has the conversation of its offer.  `EngagementInv` is the conjunction of
these.  The step is proved by a division of all actions in two: only
`CommitAcceptance` makes a deal (`Engages`); every other action is `Quiet`: it
changes no carrier, no price, no amount, creates no payment, attaches no offer,
and keeps the frames of acceptances.  A quiet step preserves the invariant by one
lemma; each action is shown quiet by a lemma of its own; the acceptance is proved
apart.  The same division gives the refinement: a quiet step settles at most one
payment of the ledger or stutters, an acceptance is `Engage`.

`StandingInv` builds on `EngagementInv`.  Its parts are the foreign keys of
conversations, of advertisements and of payments (`ConvsAttached`, `AdsStand`,
`PaidStand`); that a mission or dossier a request has read is of the
advertisement and shipper it was read for, or was deleted since, so that what
the request attaches later still suits; that the attempts counted so far, plus
the submissions that compared and have not counted, stay under the maximum plus
the slots; and that the frame of a cancellation or resolution that still has its
side effects to write is there as long as the payment is PENDING.  Every action
is shown `Steady`, which relates the two states of a step row by row, and one
lemma takes the invariant over a steady step.

`CareInv` rests on what a mission with a deal may still become (`LifeInv`).  A
payment is never taken back and keeps its mission and parties (`PaidLasts`, from
the refinement of the ledger).  A mission is on the road or delivered only when
its pickup code was used or replaced since, or a dispute was opened
(`LifeStands`); requests that check a code, open or resolve a dispute do so for a
mission with a deal, and a cancellation only holds PENDING or ACCEPTED
(`FrameLives`).  Hence what `StaysDelivered` says of a delivered mission is kept
by every step (`LifeMoves`): only a second submission of a pickup code that was
replaced meanwhile takes it back on the road.  A resolution is the one step that
makes a dispute RESOLVED and the one way to the side effects after which the
tracker is told, so what is told is the recorded verdict (`ToldWell`,
`FrameTells`).

The theorems of `SerialProofs` have the hypothesis `OneAtATime`, which is that
of `SerialMarketplace`: there is one slot (the claims show that two are enough to
break them).  It does not make requests atomic: operations of one statement (a
deletion or publication of an advertisement, a webhook) still run between two
statements of the request that is served, and a restart may interrupt it
anywhere.  `SerialInv` adds to `StandingInv` what the one request has read and
still relies on: a mission it checked has the status that was checked, one it
cancelled or resolved has the status it wrote, or the mission is gone
(`FrameHolds`); the only statement that can come in between is a deletion, which
the foreign keys refuse once the mission is paid.  Then each status says where
the dispute and the payment are (`RowAgrees`), which is what the writes guarded
by a status read earlier need, and an advertisement that is not OPEN has a deal
(`AdsHaveDeals`), so that what was deleted was not promised to anyone.  Every
action is shown to keep this, to leave packages of carriers alone and to be a
move of the contract by one lemma (`Serves`).  `AdFollowsSoleMission` needs a
process that goes on, because a restart drops the end of a mission its request
still had to apply (`Ending`); the others hold with restarts.

The platform.  The modules assume what their columns and constants are
(`NilAssumption`, `LoadsAssumption`, `MembersAssumption`, `ColumnsAssumption`,
`ProfilesAssumption`, `ChatsAssumption`, `HostsAssumption`,
`CatalogueAssumption`).

| theorem | statement |
|---|---|
| `ExchangesInvariant` | `Spec => []ExchangesInv` |
| `BlocksAreObeyed` | `Spec => []NoContactAcrossBlock` |
| `AnnouncementsStand` | `Spec => []AnnouncedDecisionStands` |
| `DecisionsAreFinal` | `Spec => DecisionsStand` |
| `AccountsInvariant` | `Spec => []AccountsInv` |
| `EmailsAreProven` | `Spec => []VerifiedEmailWasProven` |
| `PhonesAreProvenOrStale` | `Spec => []UnprovenPhoneIsStale` |
| `ProfilesStayApart` | `Spec => []UnattestedStaysApart` |
| `VerdictsAgree` | `Spec => []VerdictDecidesBadge` |
| `BadgesAreEarned` | `Spec => []BadgeWasEarned` |
| `PlatformTypes` | `Spec => []PlatformTypeOK` |
| `UploadsInvariant` | `Spec => []UploadsInv` |
| `ErasedMediaIsGone` | `Spec => []ErasedMediaHasNoFile` |
| `ShownImagesStand` | `Spec => []ShownImagesAreStored` |
| `RoomsStayPrivate` | `Spec => []ConversationsStayPrivate` |
| `PagesCover` | `Spec => []PagesCoverSearch` |
| `AdsAreSearchable` | `Spec => []SearchableOrOwed`, in behaviours whose mix of requests has no `"restart"` |

`PlatformFrames` says once which tables each part of `Next` leaves alone, so that
each proof deals with the handlers of its own tables only.

`ExchangesInv`: a request of contact remembers blocks between the two parties,
and past its check each of them is lifted, or the conversation the message was
meant for is gone; so no block stood from its arrival to its write.  What a room
was told is the decision that is stored, because a decision is written where none
is and the second read comes after it.

`AccountsInv`: a link names the address of its account as long as that account
proved none and asked for no other; handlers in flight hold users that exist or
existed and addresses that were answered from; the profile an account is about to
be linked to is attested or created it; tokens and linked profiles are of
accounts that exist; an event of the provider is of a session with a user.  `PlatformTypeOK` follows with what frames
wait for (`WaitsWell`, `TypesInv`).

`UploadsInv`: an upload in flight is alone with its image, which nobody shows
yet; an image a handler may discard is shown to nobody, owned by nobody, and
stays so (`Dropped`), which is what makes a second, late discard harmless; a row
is deleted only after its file.

Rooms and searches have invariants of their own. `RoomsInv`: a socket is in
rooms of its own user and only while it is open, a socket that is still joining
was let in, and what was heard was heard by a party; a connection keeps its user
for ever, so what is known of a socket stays known while it waits. `PlacesInv`:
an address without its point is one a request in flight is about to locate,
unless the mix has restarts; a request that publishes holds an address that
exists.

`SearchInv`, for pages: the position of a row in a page is its rank among the
rows of the board that are searched (`Rank`), and the model writes the filter of
a query by ranks (`Select`), because the prover cannot look into the recursive
`SelectSeq`; that the two agree is an assumption of `MCPlatform`
(`SelectIsSelectSeq`), which TLC evaluates on all sequences of up to three of its
advertisements, and no theorem rests on it.  As long as nothing left the search,
each row of the search at the start was read, is in the rows just read, or has a
rank beyond the rows skipped so far (`NothingIsMissed`).  New rows are added in
front of the board and a row that is reopened comes back wherever it was; either
only raises the ranks of the others (`BeyondGrows`), and places only become
known, which does the same (`IdsGrow`, for which an advertisement in publication
must have no row yet, `FreshAds`).  A page then takes the ranks up to its end
(`PageCovers`), and the reader stops only when the total, which is not less than
any rank, is within the pages read (`NextPageIff`).  If nothing changes at all, what was read
is the start of the search up to this page (`StillReads`).

Only model-checked: liveness (`CancelledIsEventuallySettled`,
`ErasedSessionEnds`), which is out of the prover's reach.  Every other property of
a passing run is the statement of a theorem.

## Not modelled

* The statements inside the transaction of an acceptance, with row locks and the
  deadlock of two acceptances of one advertisement: the database aborts one of
  them, which the model has as a refused acceptance.
* Mail and SMS (pure output), guards, decorators and serialisation (`common`),
  seeders.  Of the admin panel, the text of a resolution, which it may edit and no
  property is about, and its lists, which are read-only; its resolution of a
  dispute calls `DisputesService.resolve` and its edit of a report is
  `EditReport`.
* Single statements that no property is about: names, passwords, preferences,
  saved addresses, cities, statistics, the text of messages, the weight of
  advertisements, the recipient of a mission, the payment method.
* Signatures and expiry dates: of cookies, webhooks and tokens of providers.
  An administrator who writes the columns of verification directly is trusted.
* The announcements of offers, missions and proofs by the gateway, which take
  the same path as those of messages and appointments.  `AnnouncedDecisionStands`
  speaks of appointments only: whether the events of an offer or a mission may
  arrive in another order than the commits is not checked.
