# Verification of the RTC platform

TLA+ models of the parts of this repository where steps of several actors
meet: sockets and Redis commands, calls in flight and membership changes, cache
fills and invalidations, handlers and broadcasts, pages and live frames, tabs
that share tokens, requests that cross, jobs that run again. Paths below are relative to `src/`. `PROJECT.json`
maps every definition to the lines it translates.

Checking a run: `tlc -workers 2 -config <Run>.cfg MC<Module>.tla`.
Checking the proofs: `tlapm <Module>Proofs.tla`.

## 1. The system

A TypeScript monorepo: an Express API, WebSocket servers behind a load balancer,
a BullMQ worker and a React client (Vite), over MongoDB and Redis. What is durable is
in MongoDB, what is shared and short-lived is in Redis, and every WebSocket
instance keeps its own registry of who is connected and who receives what.

```
 browser ──REST──▶ API ──writes──▶ MongoDB ◀──reads── WebSocket instance ◀──frames──▶ browser
                    │                                     │   ▲
                    ├─ DEL channel:<id>:members ─▶ Redis ◀┘   │ ws:broadcast (CHANNEL_UPDATED, …)
                    └─ PUBLISH ws:broadcast ────▶ Redis ──────┘
                                    WebSocket ── BullMQ jobs, EVENTS channel ──▶ worker
```

### Inventory

| Component | State | Operations | What is hard | What makes it correct |
|---|---|---|---|---|
| **Presence** `packages/queue/src/presence.ts` | `presence:sockets:<user>`, `online:<user>`, both with a 90 s TTL | `addSocket`, `removeSocket`, `refreshPresence`, `filterOnline` | commands of several instances interleave; keys expire; instances die | the keys never disagree so as to hide a user; a served user never expires; a gone one does; peers are told the truth |
| **Connection life cycle** `apps/websocket/src/index.ts` | `ws.isAlive`, close handlers, heartbeat timer | `onConnection`, `onClose`, `onMessage`, heartbeat, shutdown | a socket closes while its set-up awaits; half-open peers | every set-up is undone by one clean-up |
| **Connection registry** `apps/websocket/src/registry.ts` | `connections`, `channelSubscribers`, `ws.channels`, `ws.workspaceIds` | register, remove, subscribe, unsubscribe, `dropChannel`, targets | two indexes of one relation | they mirror each other; a closed socket is in neither |
| **Subscription scope** `handlers/channels.ts`, `applyChannelUpdate` | the above, and calls in flight | `refreshScope`, JOIN, LEAVE, reaction to CHANNEL_UPDATED | read, await, apply; concurrent calls for one socket; order of announcements | a socket receives the channels its user may see, and no others |
| **Access resolution** `apps/websocket/src/access.ts` | none | `requireChannel`, `listAccessibleChannelIds` | several reads that are no snapshot | only members are admitted |
| **Channel member cache** `packages/queue/src/membership.ts` | `channel:<id>:members`, 300 s TTL | lookup, fill, invalidate | a fill overtaken by an invalidation; a failed DEL | staleness is bounded and explained |
| **Workspace and channel API** `apps/api/src/routes/{workspace,dm}.routes.ts` | WorkspaceMember, Channel, Workspace documents | create, delete, add, remove, open DM | check-then-write; write-then-announce; several writes in one request | membership, cache and scopes end up agreeing |
| **Event bus** `packages/queue/src/events.ts` | Redis pub/sub | `publishBroadcast`, subscriptions | lossy; unordered between publishers | announcements are handled in publishing order |
| **Messages and threads** `handlers/messages.ts` | Message documents, `replyCount`, attachments | send, edit, delete, thread | check-then-create, store order against broadcast order | clients end with what is stored |
| **Reactions, receipts** `handlers/{reactions,receipts}.ts` | `message.reactions`, `readBy`, `lastReadAt` | add, remove, read | three-command updates, limits | no lost and no duplicate reaction; markers never go back |
| **Typing** `handlers/typing.ts` | one timer per socket and channel | start, stop, close | timer against stop against close | an indicator always goes away |
| **Frame dispatch and rate limit** `handlers/index.ts` | token bucket per socket | `handleRawMessage`, `allow` | clock, cap | at most 40 in a burst |
| **Tokens and sessions** `packages/queue/src/tokens.ts`, `auth.routes.ts` | refresh tokens, per-user set, `session-valid-after` | login, refresh, logout, reset | rotation races, whole-second stamps | a reset ends every older session; one token is used once |
| **Invitations** `apps/api/src/lib/membership.ts` | Invitation documents | invite, accept | accepted twice at once | each invitation is redeemed once |
| **Job queues and worker** `packages/queue/src/queues.ts`, `apps/worker/src` | claims, jobs, notifications | claim, enqueue, process, retry | crash after the claim; retry after the effect | each event has its effect once |
| **Files** `file.routes.ts` | File documents, stored bytes | upload, download | access gone during the upload | no orphan, no leak |
| **Notifications** `notification.routes.ts`, web `notifications` slice | Notification documents, React Query cache, store | push, refetch, mark as read | three unordered sources of one list | list and badge end up as stored |
| **Web client: messages** `apps/web/src/lib/socket.ts`, store `messages` | rows, `hasMore`, `loadingMore` per channel | join, page, live frames, optimistic rows, reconnect | pages against live frames; what a lost socket left behind | what is shown converges to what is stored |
| **Web client: session** `apps/web/src/lib/{api,session}.ts`, store `auth` | `localStorage`, the store of each tab | refresh, follow storage events, 4401 | two tabs trade one token | an expired token does not cost the session |
| **Web client: shell** `apps/web/src/components/{Shell,shell/Sidebar,Modals}.tsx` | lists, open workspace and channel | invalidate, refetch, the shell's effects | fetches overtaken by changes, effects on stale lists | the lists are the API's, the open channel is visible |

Search, read-only routes, middleware, schemas, serializers, configuration,
logging and metrics keep no state that these depend on and are not modelled.
`PROJECT.json` lists every component with its status, and every hazard with its
line and the properties that look at it.

## 2. What is modelled

Thirteen modules, one per place where several actors share state; proofs are about
all of them. They meet at what they share and hide what the neighbour shows:

| Module | Subject | Takes from the others |
|---|---|---|
| `Presence` | one user's keys in Redis | - |
| `Subscriptions` | who receives a channel's frames on one instance | `requireChannel` asks MongoDB directly |
| `MembershipCache` | the cache in front of that question | - |
| `MessageContract`, `MessageDoc` | the life of one message, and its copies in the clients | senders pass `requireChannel`, clients are subscribed |
| `Posting` | what a channel stores: messages, replies, files, its deletion | access is lost when the channel goes |
| `Timeline` | the list of messages in one tab | a connected tab is subscribed |
| `Typing` | the typing indicator and the token bucket | - |
| `Sessions` | tokens, and the tabs that share them | - |
| `Notify` | from the event to the notification, in the worker | is the user online? (free choice) |
| `Badge` | from the notification to the badge, in the tab | rows appear, and are announced |
| `Workspace` | requests that cross in one workspace | caches and events left out |
| `Sidebar` | the lists of the tab and what it has open | changes of membership, and their announcements |

### `Presence`: one user, several sockets and instances

| Model | Code |
|---|---|
| `online`, `refs`, `refsTtl` | the two Redis keys, with the time they have left |
| `pipe[i]` | the commands instance `i` has sent on its one ioredis connection |
| `conn`, `isAlive`, `registered`, `setup` | the WebSocket, the pong flag, `connections.get(userId)`, and where `onConnection` is suspended |
| `CheckOnline`, `AddRef` | `addSocket`: EXISTS, then MULTI (SADD, EXPIRE, SET EX) |
| `SRem`, `SCard`, `Del` | `removeSocket`: three commands |
| `Refresh` | the pipeline of `refreshPresence` |
| `Announce` | `announcePresence`: the `presence-updated` event |
| `Heartbeat`, `Pong`, `Lose` | the 30 s timer, its answer, a peer that vanishes without a FIN |
| `SetupFail`, `Reject`, `Crash`, `Restart` | a rejected read, a rejected command, a process that dies and returns |
| `Tick` | one heartbeat period; keys run out |

A command and the continuation its reply wakes are one step: what an instance
sends between a command's execution and its reply could as well have been sent
before. Keys of different users are disjoint, so one user is enough. `shown` is
what the peers were told last; `disturbed` remembers that a set-up overlapped a
close, something failed or crashed, and only qualifies `PeersAgree`.

### `Subscriptions`: one instance, its sockets, the API

| Model | Code |
|---|---|
| `member`, `status`, `memberIds` | WorkspaceMember rows, Channel documents, `channel.memberIds` |
| `outbox`, `bus` | what a request has written but not yet announced; `ws:broadcast` up to this instance |
| `connections`, `subscribers`, `channels`, `inWorkspace` | the registry's indexes and the sockets' own sets |
| `jobs` | calls suspended at an await: `onConnection`, `refreshScope` of an update, `handleJoinChannel` |
| `ReadWorkspaces`, `ReadChannels`, `ApplyScope` | `listAccessibleChannelIds` read by read, then the continuation |
| `Join`, `JoinCheck`, `JoinApply`, `Leave` | JOIN_CHANNEL and LEAVE_CHANNEL; one message of a socket is handled at a time |
| `Close` | `onClose` → `removeConnection`, whatever is in flight |
| `OnRescope`, `OnCreated`, `OnRemoved`, `OnDropped` | the branches of `applyChannelUpdate` |
| `AddMember` … `DeleteWorkspace`, `Publish` | the API requests: writes, then announcements |

### `MembershipCache`: one channel, concurrent calls and requests

| Model | Code |
|---|---|
| `status`, `CreateChannel` | the Channel document: not created yet, existing, deleted; `POST /workspaces/:id/channels` |
| `cache`, `ttl` | `channel:<id>:members` without the empty marker, and its time left |
| `Hit`, `Miss`, `Load`, `ReadRows`, `Fill` | `requireChannel` → `getChannelMembers` → `resolveChannelMemberIds` → MULTI |
| `AddMemberWrite`, `RemoveMemberWrite`, `DeleteChannel` | the writes of the API routes |
| `ListChannels`, `listed`, `DeleteWorkspaceWrite`, `DeleteWorkspaceRest`, `Swept` | the deletion of a workspace: the channel ids it reads first, the documents it deletes by their workspace in any order, and the keys it will delete, which are those of the ids |
| `FindChannels`, `Invalidate` | `invalidateWorkspaceChannels`, `invalidateChannelMembers` |
| `FillFails`, `RequestFails`, `Miss` on a cached key | rejected commands, a request that dies |
| `ago[u]` | how long ago `u` was last a member (what the staleness bound speaks of) |

`barred`, `dirty`, `tainted` are history variables: they only record what the
properties ask about (was the user out, and everything answered, when the call
began; did a write overtake the call; does the entry come from such a call or
did it survive a request that should have deleted it).

### `MessageContract` and `MessageDoc`: one message

`MessageContract` is what a message promises: only its author edits it, a user has
a reaction once per emoji, receipts only grow and a read message is delivered,
a deleted message keeps nothing and never changes again. `MessageDoc` is the
document, the commands of the handlers on it, the frames they broadcast and the copy
each client keeps. `Implements` is the refinement `Contract!Spec`, with
`reacted <- Reacted` (the pairs in the `reactions` array), `delivered <- deliveredTo`
and `read <- readBy`: every command is one step of the contract or a stutter.

| Model | Code |
|---|---|
| `text`, `deleted`, `reactions`, `deliveredTo`, `readBy` | the Message document |
| `handler[s]` | where the handler of socket `s` is suspended; a socket's frames are handled one at a time |
| `EditWrite`, `DeleteFind`, `DeleteScrub` | `handleEditMessage`, `handleDeleteMessage` |
| `AddToEntry`, `AddExists`, `PushEntry` | the three commands of adding a reaction |
| `PullFromEntry`, `DropEmpty` | the two of removing one |
| `Mark` | `handleMarkDelivered`, `handleMarkRead` |
| `Broadcast`, `BroadcastFails`, `Crash` | the frame that follows, its loss, an instance that dies |
| `SaveEdit`, `ConfirmDelete`, `ToggleReaction`, `Report` | what the clients send, judging by the copy they have |
| `Apply`, `Receive` | the reducers of the web store |

### `Posting`: one channel's messages and files

| Model | Code |
|---|---|
| `posts`, `rows`, `bytes` | Message and StoredFile documents, the objects in storage |
| `UploadStart`, `UploadCheck`, `UploadPut`, `UploadRow`, `Discard` | `POST /files`: access, `storage.put`, access again and the row, the clean-up |
| `SendStart`, `ReplyStart`, `FindParent`, `FindFiles`, `CheckTaken`, `Create` | `handleSendMessage` and the thread reply, await by await |
| `DeletePost`, `SetArchived`, `DeleteRequest` | deleting a message; PATCH and DELETE of the channel |
| `CascadeFind`, `CascadeDelete`, `CascadeBytes`, `CascadeFails` | `deleteChannelCascade`: find, three deletions at once, the bytes |
| `UploadFails`, `UploadDies`, `SendFails` | storage or MongoDB refuse, before the effect or after it (`unsure`), the process dies |

### `Timeline`: the rows of one channel in one tab

| Model | Code |
|---|---|
| `docs`, `saying`, `detached` | MongoDB; handlers that wrote and have not published; frames a lost socket had sent |
| `HandleJoin`, `HandleMore`, `HandleSend`, `Reply` | JOIN_CHANNEL, LOAD_MORE_MESSAGES, SEND_MESSAGE: the read or write, then the answer |
| `RefuseFrame` | ERROR: no token in the bucket, or a handler that fails before it writes |
| `BreakOff`, `Lose` | a message, or a deletion, that is stored and never announced: the handler fails after the write (which the tab hears of by an ERROR), or Redis does not take the broadcast |
| `items`, `hasMore`, `loadingMore` | `ChannelMessages` in the store; a pending row has id 0 and its `tempId` |
| `Connect`, `Drop`, `OpenChannel`, `LeaveChannel` | `connect`, `onclose`, what the chat view does |
| `SendMessage`, `LoadOlder` | the optimistic row; the cursor is the oldest stored row |
| `ApplyHistory`, `ApplyOlder`, `ApplyNew`, `Receive` | the reducers |

### `Typing`: an indicator, two tabs, a screen

| Model | Code |
|---|---|
| `announced`, `Key`, `Empty`, `Other` | the composer: `lastTypingAt` and its throttle; sending, and leaving the channel |
| `tokens`, `Allow`, `Handle` | `allow` in front of every frame |
| `timer`, `TypingStart`, `TypingStop`, `Expire`, `Close` | the timer per socket and channel |
| `bus`, `until`, `Show` | the broadcast, and the other screen's entry with its own timeout |

### `Sessions`: one account, several tabs, one `localStorage`

| Model | Code |
|---|---|
| `live`, `index`, `after`, `blacklist` | `refresh:<sha>`, `user-refresh:<user>`, `session-valid-after`, `blacklist:<jwt>` |
| `jwt`, `rt`; `mem`, `user`, `ws` | `localStorage`; a tab's store and its WebSocket |
| `Login`, `Compare`, `GetDel`, `Issue` | login and `/auth/refresh`: password or GETDEL, then the new pair |
| `Request`, `Refused`, `Served`, `LogoutBlacklist`, `LogoutConsume` | calls behind `requireAuth`; the interceptor that refreshes and replays; logout |
| `RefreshAnswered`, `UseStored`, `GiveUp` | `ensureFreshToken`: what a tab does when its refresh is refused |
| `OnStorage`, `Renewed`, `Dial`, `WsDrop` | storage events; the socket's reconnect, and its reaction to 4401 |
| `ResetSave`, `Members`, `DelTokens`, `DelSet`, `ResetFails` | the password reset, command by command |

### `Notify`: events, claims and jobs

| Model | Code |
|---|---|
| `Publish`, `todo`, `Claim`, `ClaimThrows` | an event reaches every replica; `claimEvent` (SET NX) lets one of each service go on |
| `WriteFeed`, `EnqueueAudit`, `EnqueueNext` | what the winner does; job ids name the message and the person |
| `Take`, `Create`, `Announce`, `Mail`, `Complete`, `Throws`, `Stall` | the processors, await by await, and BullMQ's retries and stalled jobs |
| `Crash`, `Shutdown`, `Exit`, `Restart` | a replica dies; SIGTERM: `worker.close()` drains first |

### `Badge`: one tab's notifications

| Model | Code |
|---|---|
| `docs`, `announced`, `wire` | Notification documents, `notification-created`, frames on their way |
| `Refetch`, `ReadItems`, `ReadCount`, `FetchAnswered`, `FetchFailed` | GET /notifications: a list and a count, read one after the other |
| `mark[k]`: `Mark`, `MarkWrite`, `MarkCount`, `MarkAnswered` | POST /notifications/read and its mutation, several of them at a time |
| `MarkFails` | it fails before or after the write, or its answer is lost; the mutation has no `onError` |
| `OnConnected`, `OnNotification` | the frames; CONNECTED invalidates the query |

### `Workspace`: requests that cross

| Model | Code |
|---|---|
| `req[r]` | a request in flight: which one, for whom, at which await |
| `UseLink`, `SaveVerified`, `FindInvites`, `CheckWorkspace`, `AddMember`, `DeleteInvite` | verification or reset link → `acceptPendingInvites` |
| `InviteMember` … `UpsertInvite`, `JoinByCode`, `WithdrawInvite` | inviting an address, the join link |
| `RemoveMember`, `DropRow`, `FindRooms`, `PullFromRooms`, `ChangeRole` | members |
| `CreateRoom` … `AddToSet`, `TakeFromRoom`, `CloseRoom` | the private channel: checks, then writes |
| `RenameGeneral`, `SetName`, `CloseGeneral`, `CheckName`, `EraseGeneral` | renaming #general, and deleting what has another name when it is looked at |
| `InsertWorkspace`, `InsertOwner`, `InsertGeneral`, `Purge…` | the three writes of a creation, the parts of a deletion |
| `BreakOff` | a request that dies or whose command fails |

### `Sidebar`: lists, and what is open

| Model | Code |
|---|---|
| `cache`, `fetch`, `Invalidate`, `Read`, `Answered`, `Refused`, `Failed` | React Query: who is observed refetches, an answer is as old as its read |
| `OnFrame` | CHANNEL_UPDATED: which keys it invalidates, and leaving a deleted channel |
| `InView`, `Mount`, `PickWorkspace`, `PickChannel` | the workspace shown, and the effects of the shell |
| `Asking`, `Serve`, `AskAnswered`, `AskRefused`, `AnswerLost` | the modals' own requests |
| `Elsewhere`, `Connect`, `Drop`, `PublishLost` | what others do, and what the network does |

### History variables

Several modules carry variables that no action's guard reads and that only record
what a property asks about: `barred`, `dirty`, `tainted`, `ago` (`MembershipCache`),
`disturbed` (`Presence`), `raced`, `crossed` (`Subscriptions`), `overlapped`, `unsaid`
(`MessageDoc`), `crossed`, `contended`, `died`, `unsure`
(`Posting`), `missed`, `reversed`, `late`, `torn`, `stranded`, `refused`, `mute`
(`Timeline`), `renamed` (`Workspace`), `escaped`, `reasons`, `outdated`
(`Sessions`), `lost`, `lostJobs`, `reruns` (`Notify`), and so on. Where a property
holds "unless", the exception is one of these: it names a race the code has, and
the run shows that there is no other.

## 3. Runs

One run per module (`MessageContract` is checked through `MessageDoc`).

| Run | Instance | States, time | Shows |
|---|---|---|---|
| `presence` | 2 sockets on 2 instances, TTL 2, heartbeat 1 period late, fair | 0.45 M, 75 s | the keys agree (`RefsImplyOnline`), never expire under a served socket (`ExpiryMeansNobody`), peers are told right without overlap and failure (`PeersAgree`); who stays ends up online (`HeartbeatHeals`), who stays away offline (`GhostsExpire`) |
| `subscriptions` | 1 socket, a public, a private channel and a DM, one of them at the start, 2 concurrent calls (symmetric), 2 changes | 1.9 M, 70 s | the two indexes mirror each other (`IndexSymmetry`), a quiet close leaves nothing (`QuietCloseLeavesNothing`), in the end the socket receives what it may (`NothingMissed`) and nothing else (`NoEavesdropping`) |
| `cache_calls` | 2 calls, 2 requests, failures, fair | 0.6 M, 80 s | stale only by an overlap, a failure or a channel the deletion of its workspace had not listed (`StaleOnlyByOverlap`), bounded in time (`AdmittedWasMember`), and not for ever (`FreshInTheEnd`) |
| `message_doc` | the author with 2 tabs and an admin, 2 emoji, 3 frames, 1 fault, room for 1 entry | 0.6 M, 65 s | the refinement (`Implements`), the reactions array (`ReactionsWellFormed`), the copies (`ViewsConverge`), deletions reach every screen (`DeletedDisappears`) |
| `posting_cascade` | 1 file, 2 sockets, 3 posts, 1 change, failures, fair | 0.3 M, 30 s | `RowsHaveBytes`, `AttachedOnce`, `NoOrphanBytes`, `DeletionCompletes` |
| `timeline_sync` | pages of 1, 1 old message, 1 of others, 1 sent, 2 joins, 1 deletion, 1 fault, fair | 1.6 M, 165 s | no row twice (`ListedOnce`), the list is the store's (`ListMatchesStore`), loading ends (`LoadingEnds`) |
| `sessions_tabs` | 2 tabs (symmetric), 3 s, tokens live 1 s, any 2 of login, 2 requests, reset, fault | 3.8 M, 75 s | `OneTokenPerLogin`, `Revocable`, `OldSessionsEnd`, `TabsAgree`, `StaysSignedIn` |
| `typing_shown` | 2 tabs (symmetric), 4 s, timeout 2, throttle 1, net 4, 1 loss | 5.1 M, 55 s | `AtMostBurst`, `GoneInTime`, `ShownAtFirst` |
| `notify_pipeline` | 2 replicas, 1 message of 3 shapes, 2 attempts, 2 troubles, fair | 0.8 M, 100 s | `EffectsOnce`, `RowsOnce`, `ToldInTheEnd` |
| `badge_tab` | 2 notifications, 2 marks at a time, 1 fault | 4.6 M, 60 s | `BadgeRight` |
| `workspace_life` | 2 users, 2 requests at a time (symmetric), 6 in all, 1 breaks off | 2.0 M, 70 s | `InsidersOnly`, `InviteHonoured`, `WholeOrGone` |
| `sidebar_shown` | 2 workspaces, a public and a private channel of one, a DM, 2 changes, 1 fault | 3.9 M, 80 s | `SidebarRight`, `OpenIsVisible` |

`TypeOK` of every module was checked on the instance of its run and is a theorem
(section 4), so the runs do not repeat it.

### Where the code does not do what it says

While modelling, some statements of documents, comments and tests turned out not
to hold. TLC prints the shortest behaviour of each. Most have a configuration beside
the runs (`tlc -config Notify_twice.cfg MCNotify`, and so on); where only a run's
name is given, replace the INVARIANTS and PROPERTIES of its configuration by the
property in brackets (an INVARIANT for `RefetchRepairs`, else a PROPERTY).

| Configuration | Statement | What happens |
|---|---|---|
| as `Presence_all` (`FlipIsReported`) | `packages/queue/src/presence.ts:15` | `addSocket` reads EXISTS before its MULTI; if the key goes in between, the flip is not reported. |
| as `Presence_all` (`LastSocketOnly`) | `presence.ts:28` | A socket added between SCARD and DEL loses its keys and is announced offline; the next heartbeat brings `online` back, nothing takes the announcement back. |
| as `Presence_all` (`CrashedEntriesExpire`) | `presence.ts:8-9` | The TTL is that of the whole set: dead entries live as long as any socket of the user is served. |
| `Subscriptions_leak` (`NoLeaks`) | `registry.test.ts:68` | A set-up or join that outlives its socket puts it back into the registry, for good. |
| `Subscriptions_stale` (`RemovedStopsReceiving`) | `scripts/e2e.ts:299` | A refresh or a join that read the old membership applies it after the removal was handled. |
| `Subscriptions_opener` (`DmReachesBoth`) | `ARCHITECTURE.md:42` | The opener of a DM is not told; their other sockets are not subscribed. |
| `Cache_revoked` (`NonMembersGet404`) | `ARCHITECTURE.md:70` | A fill after the invalidation caches the removed member; calls begun later admit them until the key expires. |
| `Message_add` (`QuietAddIsDuplicate`) | `handlers/reactions.ts:11`, `:29` | An add that changes nothing is not always a duplicate: the limit swallows it. The index that has to be free allows 31 distinct emoji where `MAX_DISTINCT_EMOJI` is 30. |
| `Typing_long` (`ShownWhileTyping`) | `useAppStore.ts:233`: the 6 s are a safety net | A repeated TYPING_START re-arms the server's timer and is not broadcast again, so the other screen drops whoever types for longer than its net. |
| `Notify_twice` (`NeverTwice`) | `notification.service.ts:49`: replays cannot double-notify | The id keeps a second job from being added; a run cut short after the write is repeated, and writes again. |
| `Sessions_reset` (`ResetSignsOut`) | `docs/API.md:18`, `docs/ARCHITECTURE.md:68`, `auth.routes.ts:154` | A reset refuses older tokens; a WebSocket that is open stays open. |
| `Sessions_follow` (`FollowsLogin`) | `apps/web/src/App.tsx:40`: another tab logged in or out → follow it | The other tab gets the token and no user. |
| as `Badge_tab` (`RefetchRepairs`) | the refetch after CONNECTED repairs the badge | An answer equal to the cached one changes nothing in React Query, the effect does not run and the store keeps its own count. |
| `Sidebar_bounce` (`NeverBounced`) | `Shell.tsx:57-60`, `Modals.tsx:24` | After creating or joining a workspace the effect may see the old list first and move the tab off it. |

Two more configurations hold and are kept out of the runs for their time:
`Sessions_settles` (`Settles`: a tab's socket ends up open or the tab signed out)
and `Sidebar_left` (`LostIsLeft`: a tab leaves a workspace its user was
removed from, when nothing is lost).

Met on the way, and part of the exceptions the properties name: a row announced
after a newer one and then used as the cursor of LOAD_MORE_MESSAGES makes a gap no
page fills (`apps/web/src/lib/actions.ts:57`); an invalidation of a query that is in flight and not
observed is lost; the deletion of a workspace is announced to nobody;
CONNECTED invalidates the notifications and no other list; a removal and
re-admission between two fetches leaves a private channel open that was closed
to the user meanwhile; an ERROR drops the optimistic rows of the
open channel only, so those of a channel that was left meanwhile may later stand
beside their own messages (`apps/web/src/lib/socket.ts:222`, `stranded`);
removing a user who has been removed already publishes `deleted` to them all the
same, so that their sockets may drop a private channel they are back in
(`apps/api/src/routes/channel.routes.ts:121`, `crossed`); a channel created while its
workspace is being deleted is deleted with it, but its cached members stay until the
TTL (`workspace.routes.ts:136-148`, `listed`); an insert of a file row that was
applied and rejected leaves the row without bytes (`file.routes.ts:81`, `unsure`); a
message that was stored may be answered with ERROR, or not at all, and is announced to
nobody (`apps/websocket/src/handlers/messages.ts:59`, `missed`, `mute`); notifications
marked as read stay unread on the screen if the answer fails or is lost
(`apps/web/src/lib/queries.ts:45`); #general can be renamed and then deleted
(`channel.routes.ts:72`, `renamed`); invitations outlive their workspace, until the
address is verified.

### Bounds, and why they are enough

- `Presence`: two sockets on two instances give every pairwise overlap of
  `addSocket` and `removeSocket`. Sockets of one instance share its pipe, so their
  commands interleave in fewer ways. A TTL of 2 periods is the least `MaxLate < Ttl`
  allows with a heartbeat that may be a period late; the proofs cover the real 3.
- `Subscriptions`: a socket is used once (its id is a fresh UUID). Two
  calls are what a stale apply needs; two changes give requests that write in one
  order and announce in the other. At most one of the three channels is there from the
  start, the others have to be created (`StartSpec` of `MCSubscriptions`); from any start
  (`Spec`, 4.5 M states) the same holds.
- `MembershipCache`: keys of different channels are disjoint; two calls and two
  requests give a fill between any two steps of a request, and a second writer
  during the first one's invalidation. Every use of a user is a test of membership.
- `MessageDoc`: three frames are a change, a change that races it, and an answer
  to either. Room for one entry makes the limit reachable with two emoji. Four frames
  (10 M states) find nothing more.
- `Posting`: two senders and one file are the overlap of check and create; three
  posts are a parent, a reply and a second user of the file. Checked with four
  posts and two changes as well (2.5 M).
- `Timeline`: a page of one makes every message a page boundary. The late row
  (`late`) and the ERROR that finds the channel left (`stranded`) take more sends,
  visits and faults than this instance has; larger ones, beyond an exhaustive run
  (25 M states, simulations of 50 M), found them and nothing else. The proofs
  hold for every instance.
- `Sessions`: two tabs share one token; time passes over two boundaries of an
  access token's life. A third event (12.9 M, at 2 s) finds nothing more. Refresh
  tokens do not expire in the model (30 days against the seconds of a race).
- `Typing`: two tabs are the least with a timer against another's stop; the clock
  runs past the throttle and the server's timer, and just up to the other screen's `Net`, so
  the clause of `GoneInTime` about losses is violated by nothing in the run and rests on
  its theorem. A bucket of one makes the limit reachable.
- `Notify`: two replicas race for a claim; two troubles are a crash during the
  recovery from another. Checked with three troubles and three attempts (3.0 M).
- `Badge`, `Workspace`, `Sidebar`: two of each kind of thing that can cross. `Badge` was
  checked with two faults as well (11 M). Six
  requests reach deletion from creation by way of an invitation. The only public channel
  in the run of `Sidebar` is `#general`, so that other public channels come and go in
  its theorems only. `Sidebar` was
  checked with a channel in the second workspace as well (4.5 M); larger bounds of
  all three were simulated (5.5 minutes each).
- Symmetry is used in the configurations of `Subscriptions` (slots of calls), `Sessions_tabs` and
  `Typing_shown` (tabs) and `Workspace_life` (slots of requests): names that are
  only compared, in runs without liveness properties. No run uses a state
  constraint.
- Deadlock is checked in `Presence` and `MembershipCache`, where time always
  passes. The other systems stop when their bounded requests are answered.

### Fairness

- `Presence`: continuations of what has been read and the close of a terminated
  socket, the heartbeat timer, the commands at the head of a pipe, and time: Node's
  event loop, `setInterval`, a Redis that answers. `HeartbeatHeals` only speaks of
  a socket that stays open, `GhostsExpire` only of a user who stays away.
- `MembershipCache`: a call under way goes on, a request that has written goes on,
  time passes; nothing has to start.
- `MessageDoc`: a handler goes on and a frame is received, on instances that live.
- `Posting`: uploads, sends and the cascade go on once begun.
- `Timeline`: the client reconnects (its back-off ends), handlers go on, frames
  are received, what was written is published.
- `Notify`: `WF(System)`: one condition for handlers, processors and BullMQ
  together. They only ever move forward, and with finitely many troubles
  each step is taken in the end.
- `Sidebar` (`Sidebar_left` only): the connection, frames, fetches and effects;
  `Sessions` (`Sessions_settles` only): time, the server's steps, the tabs'.
- Clients, users, failures, crashes and restarts are never fair. `Subscriptions`,
  `Typing`, `Badge` and `Workspace` state safety only: "once everything is handled"
  is a condition on the state.

## 4. Proofs

Every theorem has the form `Spec => []P` or `Spec => Implements`. Beside those
listed, each machine has a theorem that its types are right (`Spec => []TypeOK`):
`TypeCorrect`, and `WorkspaceTyped`, `CacheTyped`, `BadgeTyped`, `SidebarTyped`,
`TimelineTyped` in the four modules that prove about two machines. These two share nothing; the names of
the second one that would clash carry its own name as a prefix (`BadgeSpec`).

| Module | Theorem (property) | For every |
|---|---|---|
| `PresenceProofs` | `KeysAgree` (`RefsImplyOnline`), `KeyOutlivesSockets` (`ExpiryMeansNobody`), `PeersToldRight` (`PeersAgree`) | set of instances and sockets, TTL, lateness |
| `SubscriptionsProofs` | `IndexesMirror` (`IndexSymmetry`), `QuietCloseIsComplete` (`QuietCloseLeavesNothing`), `NobodyEavesdrops` (`NoEavesdropping`), `NobodyMisses` (`NothingMissed`) | set of users, sockets, channels, calls and number of changes |
| `MembershipProofs` | of `Workspace`: `NobodyStaysInside` (`InsidersOnly`), `InvitationsEnd` (`InviteHonoured`), `NeverInPieces` (`WholeOrGone`); of `MembershipCache`: `StalenessIsBounded` (`AdmittedWasMember`), `OnlyOverlapsGoStale` (`StaleOnlyByOverlap`) | set of users, rooms and requests, number of faults; set of users, calls, requests, TTL, hold time, with and without failures |
| `MessageDocProofs` | `ReactionsStayWellFormed` (`ReactionsWellFormed`), `KeepsContract` (`Implements`), `CopiesAgree` (`ViewsConverge`) | set of users, sockets, emoji and texts, limit, number of requests and faults |
| `PostingProofs` | of `Posting`: `RowsAlwaysServed` (`RowsHaveBytes`), `NothingOrphaned` (`NoOrphanBytes`), `NeverAttachedTwice` (`AttachedOnce`); of `Timeline`: `NothingListedTwice` (`ListedOnce`), `ShownAsStored` (`ListMatchesStore`) | set of files, sockets and users, number of messages and changes; page size, number of messages, sends, visits, deletions and faults |
| `NotifyProofs` | of `Notify`: `ClaimsWork` (`EffectsOnce`), `JobsWriteOnce` (`RowsOnce`); of `Badge`: `TabShowsTruth` (`BadgeRight`) | set of replicas, messages and people, attempts, troubles; number of rows, marks and faults |
| `SessionsProofs` | `EveryTokenListed` (`Revocable`), `ResetEndsSessions` (`OldSessionsEnd`), `LoginsNeverFork` (`OneTokenPerLogin`), `TabsFollow` (`TabsAgree`), `ExpiryIsNotTheEnd` (`StaysSignedIn`) | set of tabs and tokens, time to live, number of logins, resets and faults |
| `TabProofs` | of `Typing`: `BucketHolds` (`AtMostBurst`), `IndicatorGoes` (`GoneInTime`), `IndicatorComes` (`ShownAtFirst`); of `Sidebar`: `ListsAreRight` (`SidebarRight`), `OpenChannelIsSeen` (`OpenIsVisible`) | set of tabs, timeouts in their order, bucket, length of time, number of losses; set of workspaces and channels, which are private or "general", number of changes and losses |

The inductive invariants were checked by TLC on the instances of the runs before
they were proved.

### Assumptions

All are stated beside the constants, and TLC evaluates them. Of the code:
`Home` maps sockets to instances and `MaxLate < Ttl` (the timer's 30 s against the
TTL's 90 s); `Owner`, `Kind`, `UserOf` are functions and `User` is finite (the API
enumerates members); `Ttl` and `MaxHold` are positive; a job has at least one
attempt; the three timeouts of typing are in the order `Throttle < Timeout < Net`
(2 s, 3 s, 6 s); a page has at least one message; the ids of workspaces are not
those of channels. Of the model: bounds are natural numbers, tokens are positive ones
(0 stands for none), and the mark for "no replica" is not a replica.

### Arguments

**KeyOutlivesSockets.** That the key does not expire under a live socket is not
inductive: it needs to know why there is time left. `Inv` adds that nothing is
sent to Redis for a socket before its set-up begins (`CommandsBegun`,
`NoneIsIdle`), that an open socket past that point is registered on a running
instance (`Served`), hence served by the heartbeat, and that the key has at least
the time left that this heartbeat still leaves it, or its refresh is on the way
(`Margin`). `Tick` may run only while no instance is `MaxLate` late and no refresh
is under way, so `Margin` leaves it more than one period.

**PeersToldRight.** The property speaks of the moment when nothing is under way;
its invariant has to follow the commands there, in the order of the pipes. Until
something is disturbed (`Calm`): a command in a pipe finds its socket where it was
when the command was sent (`SetupSent`, `CloseSent`, `OnlineSent`), a pipe holds one
refresh and one command of a socket's set-up or close (`OneSlot`), and set-ups and
cleanups do not meet (`Apart`). Then the set in Redis has every socket a heartbeat
serves, and otherwise only those whose `srem` is still to come (`SetRight`), and a
refresh never revives the key of a user who has left: whoever it was sent for is
still on record when it runs: the `srem` of that socket is behind it in the same
pipe, or its `exists` before it (`RefreshDue`). `ToldOnline` and `ToldOffline`
are what becomes of `PeersAgree` in between: whoever relies on an announcement finds
it made or in a pipe. `Tick` needs `Margin` again, and that both keys have the same
time left (`KeysEqual`). The lemmas about `Grown` and `Turned` say once what sending,
running and answering a command do to the contents and the order of a pipe.

**IndexesMirror, QuietCloseIsComplete.** The registry's operations change both
indexes as one relation; the close of an idle socket takes it out of
`connections` and of every room it knows of, which by the symmetry is every room
it is in. That it stays out needs `OwnSockets` (a socket is only listed under its
owner) and that no call of it is left to put it back.

**NobodyEavesdrops, NobodyMisses.** The properties speak of the moment when all is
quiet; `MoreInv` and `LessInv` of every moment before it. A request is summed up by
`Announces(U, es)`: what it changes for whom, and that the frames `es` it is about
to publish tell of every loss (`TellsLoss`) and every gain (`TellsGain`) but the
opener's DM. Nine lemmas show it of the nine requests. A registered socket that has
not raced then holds no channel its user may not see, unless a frame that is
queued (`Ahead`) or a call in flight (`Awaited`) will take it back (`NoMore`), and
lacks none, unless one will bring it (`NoLess`). The calls are good for that because
what they have read is still what MongoDB says (`JobsCurrent`). An `unsubscribe`
must not take away what was given back: for a user about whom the requests were announced
in the order of their writes, a `rescope` follows it in the queue (`Ordered`). A removal
that finds nothing to remove counts as a write: it changes nothing and announces an
`unsubscribe`. Handling a frame uses it up,
and each of the four handlers does what the frame was an excuse for.

**StalenessIsBounded.** `Recent`: an entry ages no faster than its key runs down
(`ago[u] + ttl <= Ttl + MaxHold`), and what a call has read is no older than the
call's clock. Neither clause survives alone: a fill turns the second into the
first.

**OnlyOverlapsGoStale.** `CleanCalls`: a call that no write overtook holds what
MongoDB holds. `Excused`: while the entry differs from MongoDB, some request has
yet to delete it; when the channel is gone, one that will certainly delete the key
and not one that may find no public channel left, nor a deletion of the workspace that
has read the channel ids without it (`listed`).

**NobodyStaysInside, InvitationsEnd, NeverInPieces.** Each clause of `WorkspaceInv`
names the request that will still do what a property misses, or the record that it
was cut short or crossed. An invitation of a verified address is being redeemed
(`Redeemed`); what a live workspace lacks is being written by its founder
(`Founded`), what is left of one that is deleted is being purged (`Purging`). A live workspace has
#general under some name, or #general was renamed once (`Named`): a request that deletes
it has found it renamed. Whoever
is inside a private channel has a row, or lost it to a removal that has yet to pull
them out (`Rooted`). That needs to know whom a channel write is about to let in: the
users it has read, who have a row unless theirs was crossed (`Checked`); and that
before the owner's row is written nobody is there to ask for anything (`Founding`,
`Untouched`). Even the types are not inductive alone: creating a channel copies the
users the request names into its members, so these have to be users (`Fits`).

**ReactionsStayWellFormed, KeepsContract.** `OneEntry` (an emoji has one entry) is
what makes the three updates of the handlers an addition or a removal of one pair:
an update that names an emoji matches one entry or none. `EmptyExcused` keeps an
entry without users for the handler that will drop it, or for the crash that kept
it from doing so. `Scrubbed` (nothing is left of the reactions of a deleted message)
turns the second of two racing deletions into a stutter of the contract.

**CopiesAgree.** A client's copy and the document differ only while a frame is still
to come, or where a broadcast was lost or overlapped. For texts the LAST edit queued
for the client decides, so it is the one that must carry the text of the document
(`TextSpreads`); for a reaction it is that some turn of this pair is still to come
or being broadcast (`ReactionsSpread`); receipts only grow (`ReceiptsSpread`), and a
deletion ends everything (`DeletionSpreads`). `NoRumours` is the other direction:
nothing travels or is shown that the document did not say. `Orderly` says who
may have which handler, and that a user has one at a time unless they `overlapped`:
there the later write may be broadcast first, and the property excepts it.

**RowsAlwaysServed, NothingOrphaned, NeverAttachedTwice.** The first two
need to know which step of which upload and of the cascade still stands:
`UploadsFit` (a row was stored by an upload that is over, or by an insert that was rejected, `unsure`; one under way has its bytes),
`CascadeFits` (rows are deleted before the bytes of what was found) and `Quiet` (a
deletion nothing overlapped has found every row). The third needs `Claims`: the
files of two handlers, and those of a handler past its check and of a message, meet
only where two were attaching at once.

**NothingListedTwice.** A message would be listed twice if a page brought it while its
optimistic row is still there. In a connected, open channel something is on its way
that takes the row away (`Cleans`): the next page, which replaces the list, an ERROR,
or the echo (`Cleaned`). It arrives before any older page with the message:
`InboxKeeps`, `JobKeeps` and `OutboxKeeps` say so of a page that is on its way, being
answered, and asked for. In the last case the message may not be stored yet
(`Unborn`); then its frame is behind the request, and the page is read without it.
`UsedOnce` (a temp id is spent on one frame) and `Honest` (a frame tells of stored
messages, by their temp ids) connect the two names of one message. Nothing takes away the row of a message whose own
broadcast was lost: it is `mute`, the rows that are not are `Waiting`, and `Apart` says that
no frame is under way with the temp id of a mute one. The theorem needs
the exception `stranded`, which TLC had not met on the instance of the run.

**ShownAsStored.** Like the other statements about quiet moments it is followed through
the queues. `Coming(p)` and `Going(p)` are the messages and the deletions the tab will
still hear of after position `p` of its inbox. A page `Spans` what is `Due` (stored,
and not announced while the page was read): from its oldest message on it has all but
what is coming, and all of it if there is no more. Whatever is shown and `Dead` is
going (`Right`), and broadcasts come in the order of their messages unless one was
late (`InOrder`). That holds of the answer being given (`JobGood`), of every frame
(`InboxGood`) and of the list (`RowsGood`), as long as the tab keeps up the page it
has (`Following`, `Fixed`): the next page starts all over. A cursor is one from which
the list is complete (`AskedWhole`), so the older page joins it without a gap
(`OlderWhole`). A message that will never be announced is excepted like one that crossed a page
(`missed`), and so is the row that waits for it (`mute`). `TrafficStep` says once that no
other step loses what is coming or going.

**ClaimsWork, JobsWriteOnce.** `OneWinner`: a claim is worked on by one replica;
what it has done for the claim is done by nobody any more, because the key in Redis
outlives it (`FeedsOnce`, `AuditsOnce`). For the jobs, `Written` and `Mailed` say
what the current run has done: rows are what the runs that were cut short have
written, and that. A run that ends before its time moves from the second to the
first.

**TabShowsTruth.** A notification only goes from none to unread to read, so any answer
is behind the store (`Aging`), and one that equals the cached answer, which React
Query does not report, hides no change (`CacheShown`). What a fetch or a mark has
read, and nothing has crossed, is still what is stored (`FetchTrue`, `MarkTrue`); of
several marks that have been written at most one is not crossed by another.
`Followed` is what becomes of `BadgeRight` in between: while no fetch is to come, the
list lacks just the pushes under way, and the badge and their number add up to what
is unread.

**EveryTokenListed, ResetEndsSessions.** `Swept`: between the commands of a reset,
a live token is among those it will still delete, or was stored while it ran.
**LoginsNeverFork.** A login is owned by one: a live token or one call that has
consumed it (`LoginInv`). **TabsFollow.** A tab has the stored token, or its last
pending event brings it (`Follows`). **ExpiryIsNotTheEnd.** `Rotates`: the stored
refresh token is good or the call that consumed it is about to store its successor
(`Renewable`), a token that was issued and is not stored yet belongs to one answer
(`Fresh`), and a refusal means the token is gone (`Gone`), so the tab that is
refused finds another one in the storage.

**BucketHolds.** What a socket was let through and what it has left is at most
`BucketMax + Refill * now` (`Budget`). **IndicatorGoes, IndicatorComes.** `Final` is
what the screen shows when the broadcasts under way have arrived. Without a loss it
is true only while a timer runs that will take it back (`Backed`), and a timer shows
how long ago its TYPING_START was (`Armed`); with losses the screen's own clock
bounds it (`NetHolds`). Whoever was announced and not hidden is in `Final`, with
`Net` less the age left (`Promised`).

**ListsAreRight, OpenChannelIsSeen.** `Good` is what becomes of `SidebarRight` in
between: a list that is to be right is right, or a fetch has read it right or has
still to read, or a frame or the answer to an own request will invalidate it, or it
is marked and nobody looks. `Informed` says of each of the nine requests that the
tab is told of every list it changes, or has not asked for it yet (`Unseen`), or may
not read it any more; that `invalidateQueries` then does what is due is one lemma
(`InvalidateKeeps`). `Inside` is the same for the open channel: it is seen, or a frame
that closes it is under way, or its workspace is lost, and then the list of
workspaces, which is right by `Good` and was answered by `RailOk`, moves the tab.

### Model-checked only

Every safety property and the refinement that the runs check are theorems. What is
left to TLC is liveness under fairness, which this prover does not reach:
`HeartbeatHeals`, `GhostsExpire`, `FreshInTheEnd`, `DeletedDisappears`,
`DeletionCompletes`, `LoadingEnds`, `ToldInTheEnd`.

## 5. What is not modelled

- Search, analytics, the listings, the download of a file: they read only.
- Renaming and archiving in the lists: names change no membership. That #general loses
  its protection with its name is part of `Workspace`.
- Threads as the client shows them: the thread view, the reply counter, replies
  that are still to be sent. Unread counters and the toasts.
- The roster of who is online that comes with CONNECTED (`apps/websocket/src/index.ts:109`):
  it is read before it is sent, and updates meanwhile are overwritten by it. The
  client's map of presence has no other repair.
- Loss of announcements in `Subscriptions`: publishing is best-effort. Losing one
  refutes every statement about convergence there, and nothing repairs it before
  the socket reconnects. `MessageDoc`, `Timeline`, `Typing`, `Badge` and `Sidebar` do
  model losses.
- The origin check of the upgrade; validation, middleware, the mail's text,
  gauges and metrics.
- BullMQ, React Query, MongoDB, Redis and ioredis themselves: their parts in the
  models follow from how `src/` uses them.

## 6. Plan

All modules above are written and checked, and every safety property of the runs
is a theorem. What is left:

1. A `Thread` module (reply counter and thread view).
2. A composition of `Subscriptions` with `MembershipCache`, in which a join passes
   through the cache.
