# A TLA+ verification of school_eltex

The repository is a collection of C programs written for a course: several
small systems of communicating processes (`module3`), data structures behind
menus (`module2`), and kernel modules (`module5`). The hardest part is
`module3`: processes that share memory, a message queue, a pipe or a pair of
queues, are interrupted by signals, end while others still run, and are killed.
The project models these first, then the kernel modules, whose handlers any number of
processes enter at once, and the programs of `module2`, where the difficulty is in long
sequences of operations.

Words used below: a *step* is what one process does between two points where
another can act; a *pass* of a consumer is one walk along the chain of blocks.

## 1. The system's parts

| Part | State it keeps | Operations | Interacts through |
|---|---|---|---|
| `module3/01` file copier | two pipes, per process: file, position, `bytes_left`, the metadata record | parent: open, wait for `R`, stat, record, contents, end record; child: `R`, record, contents | unnamed pipes or FIFOs |
| `module3/02` broker | the System V queue, topics with lists of pids, list of publishers, `should_terminate` flags | subscribe, unsubscribe, send, fan out, shutdown; publisher: read a line, send; subscriber: subscribe, receive, unsubscribe | one message queue for everything, SIGINT |
| `module3/03` chat | two POSIX queues and their names, `keep_running`, role | open as creator or client, send, receive, END, close, join, unlink | two message queues, SIGINT sent to itself, two threads |
| `module3/04` shared memory, System V | the segment with its chain of blocks, the semaphore | producer: write and link blocks, poll until all are claimed, remove; consumer: lock, read a header, claim, walk on, start over or leave | shared memory, one semaphore with `SEM_UNDO` |
| `module3/05` shared memory, POSIX | the same behind names | the same with exclusive creation and unlinking | shared memory, a named semaphore without undo |
| `module3/06` UDP chat | socket, nickname, `keep_running`, `received_msg` | bind, greet, send a line, say farewell; second thread: receive, filter one's own datagrams | broadcast datagrams, SIGINT for either thread |
| `module2/4/4.2` priority queue | linked list ordered by priority | init, insert, pop three ways, print, clear | calls from a menu |
| `module2/2/2.1` array phonebook | sorted array, size, capacity | init, add, delete, edit, fill, print | calls from a menu |
| `module2` list phonebooks (4.1, 6.1, 6.2) | doubly linked list sorted by last name | add, delete, edit, print | calls from a menu |
| `module2/4/4.3` tree phonebook | binary search tree by last name, count of changes | add, delete, edit, find, rebuild, print | calls from a menu |
| `module2` calculators (2.2, 2.3, 6.3) | `operation`; 6.3: table of plugins and their handles | load plugins, choose, read arguments, call, exit | 6.3: libraries in `libs/` |
| `module2/3/3.1` chmod simulator | the permission bits | enter, change by commands, exit | none |
| `module2/3/3.2` subnet checker | gateway, network, the count | test random addresses | none |
| `module5/lab4` `chrdev`, `lab2` `proc` | one message buffer, its length, an offset per open file | open, read, write, release, load, unload | system calls of any number of processes |
| `module5/lab3` `kbd_led_sysfs` | `test`, the LEDs of each console | load, store, unload | sysfs, the console in the foreground |
| `module5/lab1`, `lab5` hello, netlink | none | print; answer one message | netlink |
| `module1`, `module4` | none (reports and logs) | | |
| Unity | third-party test framework | | |

`PROJECT.json` lists each of them, with its sources and whether it is modelled,
and the hazards of each at the line where they bite.

What has to be true of them:

* **Shared memory (04, 05).** No block, header or access leaves the segment; one
  process at a time between lock and unlock, also after one was killed there; a
  block is claimed once although claiming is two reads and a write; a
  consumer that reports empty memory is right; the resources are removed only
  when everything was claimed; everybody ends, also consumers that outlive
  the segment and the semaphore.
* **Broker (02).** A subscriber gets the payloads of its topics, in order, once
  and without gaps; the broker does not crash; everybody ends at shutdown;
  a full queue does not stop the system for ever while there are readers.
* **Chat (03).** Never two creators; text in order although END overtakes it;
  whoever leaves takes its partner along; names are removed by their creator only.
* **Copier (01).** Every file arrives byte by byte; the record of a file is never
  mixed with the contents of the one before; both processes end.
* **UDP chat (06).** What the network delivers is shown, in the order it came, from the greeting to
  the farewell; nobody sees their own lines, and no line twice of the chat's own making.
* **Character device and proc entry.** However calls overlap, nobody reads what was never written, and
  no byte lands behind the buffer but a terminator; code and buffer exist while they are used.
* **Keyboard LEDs.** The value shown is the one that is lit where the LEDs were set last; the LEDs of the console in the
  foreground are given back.
* **Calculators.** The line that is chosen is the one that is called; each line of the menu of 6.3 has one
  library, which is open exactly as long.
* **chmod, subnet.** The bits are those `chmod(1)` would make; an address is in the network exactly if
  arithmetic on numbers says so.
* **Priority queue (4.2).** Elements leave by priority and, among equals, in the
  order they came; the list stays a list.
* **Phonebooks.** A contact that was added is there, once, until it is deleted; the
  order and the links, places or search paths that lead to it survive every
  sequence of additions, deletions and renames; the array always has room; the tree does
  not degenerate; the letters of one editing dialogue all change the contact
  it began with.

## 2. The modules

| Module | Models | Kind |
|---|---|---|
| `BlockPool` | what 04 and 05 promise together | abstract specification |
| `ShmSysV` | `module3/04` | detailed, implements `BlockPool` |
| `ShmSysVInv`, `ShmSysVProofs` | the inductive invariant of `ShmSysV`; its proofs | proofs |
| `ShmPosix` | `module3/05` | detailed, implements `BlockPool` per producer |
| `ShmPosixInv`, `ShmPosixProofs` | the inductive invariant of `ShmPosix`; its proofs | proofs |
| `Broker` | `module3/02` | detailed |
| `BrokerProofs` | theorems about `Broker` | proofs |
| `MqChat` | `module3/03` | detailed |
| `MqChatProofs` | theorems about `MqChat` | proofs |
| `PipeCopy` | `module3/01` | detailed |
| `PipeCopyProofs` | theorems about `PipeCopy` | proofs |
| `PriorityQueue` | `module2/4/4.2` | detailed, sequential |
| `UdpChat` | `module3/06` | detailed |
| `Device` | `module5/lab4` and `module5/lab2` | detailed |
| `DeviceProofs` | theorems about `Device` | proofs |
| `KbdLed` | `module5/lab3` | detailed |
| `ContactList` | `module2/6/6.1`, and 6.2, which is 6.1 as a dynamic library | detailed, sequential |
| `ContactListPlain` | `module2/4/4.1` | extends `ContactList` by what 4.1 does otherwise |
| `ContactArray` | `module2/2/2.1` | detailed, sequential |
| `ContactTree` | `module2/4/4.3` | detailed, sequential; recursion as functions on a set of trees, so that `MCModule2` can be proved about |
| `Calculator` | `module2/2/2.2`, `2/2.3`, `6/6.3` | detailed, sequential |
| `Permissions` | `module2/3/3.1` | detailed, with `chmod(1)` as reference |
| `Subnet` | `module2/3/3.2` | detailed, with arithmetic on numbers as reference |
| `MCSystems` | `PipeCopy`, `UdpChat`, `Device` or `KbdLed`, one at a time | model checking |
| `SystemsProofs` | theorems about what `MCSystems` runs: the device, the LEDs, the UDP chat and the copier | proofs |
| `MCModule2` | one of the eight programs of `module2` at a time | model checking |
| `Module2Proofs` | theorems about what `MCModule2` runs: the queue, the list and array phonebooks, the calculators, the chmod simulator | proofs |
| `MC...` | values of constants and symmetry for TLC | model checking |

Each module opens with what it models and how it abstracts data. The definition
names are the source's where TLA+ allows it; `PROJECT.json` "map" gives the lines
each definition stands for. A comment "Seeded fault" marks an alternative form of the
definition that follows it. Such a form is never part of a specification: it is
what the definition would be after a plausible mistake, and `PROJECT.json` "mutants"
says which property has to notice it.

### ShmSysV (`producer.c`, `consumer.c`, `semaphor.h`, `shared.h` of 04)

The segment is an array of words of eight bytes. `count[o]` and `next[o]` are the two
fields of the header at word `o`; a header takes `HeaderWords` words, a
number one. Numbers themselves are not represented, only the room they take.
`size[o]` and `took[o]` are history variables: the count a block was written with,
and how often it was claimed; no action reads them.

The producer's `ppc` follows its `main`: `shmget`, `semget`, `setval`, then per block
`gen` (draw a count that fits: `PDraw`), `lock`, `write` (header with `next_addr = 0`), `link`
(announce the next header if it fits, unlock), then `poll`/`scan` (walk the chain, one
step per block, under the lock), `rmshm`, `rmsem`. A consumer's `cpc` follows the loop:
`lock`, `read` (count), `readnext`, then `take`, `end` or `skip`. The reads and the
write of a header are separate steps, so that what the lock protects is a result and
not an assumption.

`semaphor_lock` and `semaphor_unlock` ignore the result of `semop`. A consumer that
found no semaphore (`semOK` false), or whose semaphore has been removed, goes
through them without waiting and without effect; `ConsumerLock` says so. `SEM_UNDO` is
`PDie`/`CDie`: a killed process gives back the unit it had taken.

### ShmPosix (05)

The same protocol; the layout, already shown for 04, is abstracted to numbered blocks.
What is new is kept: several producers may be started; `O_EXCL` makes all but one
fail; a name can be unlinked by a producer while it denotes somebody else's
object; a consumer opens segment and semaphore in two steps and can get them from
two producers; a killed process leaves the semaphore as it is; access to a segment
without size is SIGBUS, `sem_wait` on a failed `sem_open` is SIGSEGV.

### Broker (02)

The System V queue is one FIFO per receiver (`mail[r]`: `msgrcv` asks for one type
and gets the oldest of it) with one shared capacity. Every process has a place
`pc[x]`; the broker's lists `topics`, `pubs` are sequences, newest first, as the linked
lists are. `fan` is what the loop of `send_to_subscribers` has still to serve. A SIGINT
sets `flag[x]` and either finds the process inside a blocking call (`Interrupted`)
or not: both are allowed at every place, because the test of the flag and the
call are two steps. `del_pid` on an empty list is the place `crashed`.

### MqChat (03)

A queue object is `<<number, creator>>`; `name[i]` is what the name denotes now,
`desc[p]` what `p` opened. Main thread and receiving thread have a place each (`mpc`,
`rpc`). Priorities: an END is received before all texts. Starting is four steps, so
that two processes can start at the same time. The SIGINT the receiver sends to its
own process may meet either thread or none of its calls.

### PipeCopy (01)

The data pipe is a sequence of whole metadata records and single bytes, a byte is known
by its file and its place. A write of a buffer is atomic (it is below `PIPE_BUF`), a
read takes what there is: `CChunk` can come back short, and `left` is reduced by what
was asked for, as in the code. The end of an unnamed pipe is `NoWriter`/`NoReader`, where the
parent has closed its ends before it waits (`main.c:103-105`); with FIFOs, which both processes hold open for both directions, neither is ever true.

### PriorityQueue, ContactList, ContactArray, ContactTree (`module2`)

These programs have one thread: an action is what the program does between two inputs. The
library functions are whole actions, a menu dialogue that asks for several things is
several. Data are reduced to what the structure depends on: priorities and last names
are small numbers, all fields a structure does not look at are one *card* by
which a contact is recognised.

* `PriorityQueue` keeps `begin` and the `next` fields; `Chain` is what a loop over
  them meets. `queue` is the pointer in `main`, indeterminate before option 1. `came` and
  `lost` are history. An item's value is its name.
* `ContactList` keeps root, `next`, `prev` and the contact of each node; the nodes are a finite
  set, so that `malloc` can fail, and `leaked` are those that renaming leaves behind. The
  history variables `clashed` (ids have been equal) and `starved` (`malloc` has failed)
  say under which conditions the code loses a contact.
* `ContactArray` keeps the contacts in order, with `capacity`. `qsort` is not stable:
  `SortedOf` allows every order of equal names. `call.idx` is the place the editing dialogue keeps.
* `ContactTree` keeps the tree as a nested record, `opCount`, and the size at the last rebuild
  (`base`, history). `DelContact` has no caller in the repository, whose tests too call only `delNode`; the menu
  calls `DelNode` through `HandleDelContact`, which does not count.

`ContactListPlain` takes the state and the common actions from `ContactList`. What differs has an action of its own:
4.1 adds without looking for the id, dereferences what `malloc` returned (place `crashed`), and cuts a node
out on the way from the root (`CutOut`) instead of through its `prev`.

### UdpChat (06)

A datagram is its sender, its number and its type; `flight[u]` holds those on the way to `u`
and in its socket, `slot[u]` is the one buffer `received_msg` that the second thread reads into.
`pc` follows `main`; between the test of `keep_running` and `fgets` is a step, and SIGINT
can come anywhere between the test and `fgets` (`PressMain`) and leave the user waiting for one more line. A SIGINT that meets the second thread
makes `recvfrom` fail, and what the buffer held is taken for a new message (`PressReceiver`). `Own`
is the filter, with the nicknames that `strncpy` leaves without an end. The network
loses, repeats and swaps datagrams (`Lose`, `Repeat`, `Reorder`). The histories `struck` and `extra` say
for whom it did, `sent` and `joined` what should have come.

### Device (`chrdev.c`, `proc.c`) and KbdLed (`kbd_led_sysfs.c`)

The two modules of `Device` have the same read and write, so that they share the actions; `kind` says which one is
loaded. `file[p]` is the open file of `p` with its offset and the call `p` is in. A copy
to or from user space is one step per byte and can fault at each. The two stores that end a
write, of the length and of the terminator, come in either order, and no lock stands between any of this. `msg` has one
cell behind the buffer, because the terminator of a full message is written there. Loading and
unloading are split where another process can come: `chrdev` relies on a count it keeps
itself inside `open` and `release`, the proc entry has its name before its buffer. `oops` is the place of a process
that ran into code or memory that is gone.

In `KbdLed` a store is two steps, `test` and the LEDs, and stores of several writers overlap;
unloading restores the LEDs first and removes the file afterwards. `set_leds` takes `vc_cons[fg_console]` anew at every
call, so that `leds` is a function of consoles: `SetLeds` changes those of `Found`, the console that is in the foreground then, if it
has a terminal, while `Switch` and `Terminal` come between any two steps. What is kept of a console is the value its terminal was sent
last. The histories `aimed` and `lent` say where `set_leds` went last and where stores went at all.

### Calculator, Permissions, Subnet

`Calculator` is one loop for the three programs; `calc` says whether the number goes through a switch, an unchecked table or a
checked one. Because no result of `scanf` is tested, a word in the input leaves
`operation` as it was, for good (`jammed`). `Permissions` applies one clause per action, a sequence of characters in
which all unknown ones count as one; an unknown one makes the loop of `chmod.c` spin (place
`endless`). `Subnet` computes on words of bits, octets that are too large and
shifts by the width of the word included.

### MCModule2 and MCSystems

Each puts its programs side by side, chooses one in `Init` and lets only that one move. They give the actions and
the properties their names in the runs. Some properties of a run are conjunctions of properties
that the modules state one by one: `ListIntact`, `ArrayIntact`, `TreeIntact` and `BitsAgree` in `MCModule2`,
`CopiesKept`, `ChatIntact` and `LedsFollow` in `MCSystems`, `MixedOnly` in `ShmPosix` (`TakenOnce` and
`NoBusError`), `StreamsIntact` in `Broker` (`OrderedOnce` and `Gapless`), `NamesManaged` in
`MqChat` (`OneCreator` and `CleanExit`).

## 3. What each run checks

Bounds are the constants of the `.cfg` files; every one is a CONSTANT of the module or a
guard on a counter named `Max...`.

| Run | Question | Bounds, and why they are enough |
|---|---|---|
| `shm_sysv_safety` | layout, exclusion, single claim, honest "empty", refinement of `BlockPool`, under kills | nine words: up to three blocks, a last block cut to fit, and a remainder that fits no block; two consumers race for one block; one kill hits each place |
| `shm_sysv_live` | does everybody end, whoever is killed | six words, two blocks, one kill; the producer is promised an end only while a consumer stays alive |
| `shm_posix_safety` | single claim, exclusion, no SIGBUS, refinement, with two producers in succession | three consumers, because mixing handles takes one more than racing; two blocks; one kill |
| `shm_posix_live` | does everybody end, unless a killed process took the semaphore | one producer, two consumers, one kill |
| `broker_safety` | order, single delivery, no gaps | two publishers on two topics, three lines (a gap can be in the middle), a subscriber of both topics or of one named twice; a queue of one message, so that everybody blocks often; one Ctrl-C |
| `broker_live` | no crash without a repeated topic, everybody ends, ended subscribers are forgotten, a full queue stops the broker only behind unread mail | a queue of one message, or one that is never full (`Roomy`); one line; two Ctrl-C, so that both subscribers of a topic leave; one rival broker |
| `broker_refused` | does "already running" mean it (violated, see 5) | one rival broker |
| `mq_chat_safety` | roles, names, order of text | three processes: a third can take roles and names while two run; queue of two, two lines |
| `mq_chat_live` | does a partner leave, who can block a sender | queues of one message, or never full (`Roomy`); two lines, one kill, one Ctrl-C |
| `systems` | exact copies, kept to the end, and both processes of the copier end; conversations without gap or echo; the device's buffer, its readers and the code under it; the LEDs | copier: all command lines of up to three names of two files, sizes 0..3 around a buffer of two, a pipe of three, one concurrent change. Chat: two users on one host or two, with two nicknames or one, one of them of full length; one line each, so that greeting, line and farewell are in flight together; one trouble, a SIGINT or a network fault. Device: two processes, a buffer of two bytes, calls of up to two bytes, two writes, so that two can overlap, overwrite or fill. LEDs: two consoles, each with a terminal or without, two writers; both ends of the mask, one beyond each, the restoring value and no number |
| `module2_programs` | order, completeness, links, room, search, height, who an editing dialogue changes, which line of a menu is called, whose bits a command changes, which addresses a network has, for every sequence of operations | queue: three items, two priorities and one refused on either side; lists: three contacts, four nodes, so that a rename can run out of memory; array: room for one, so that it grows twice and shrinks, three contacts, two initialisations; tree: four contacts, the least for a removal that has to keep a successor's subtree, a rebuild after three changes, equal names; calculators: two built-in operations, room for two plugins, and six files of which one cannot be loaded, one has no `getInfo`, one is no library and three are plugins, one too many; permissions: two classes of users, two rights, every clause of up to four characters; subnet: octets of one bit, so that every gateway, every mask and every prefix from unreadable to one beyond the word is tried against every address |
| `array_book_edit` | does a dialogue on the array stay with its contact (violated, see 5) | two contacts, three names |

Deadlock is not checked: the programs really stop, when all processes have ended, or wait for a
user or for a semaphore a killed process kept. What must not stop is said by the liveness
properties.

## 4. Fairness

* A started process is scheduled: weak fairness of its own steps. Starting a process,
  typing, Ctrl-C and being killed have no fairness: they are the user's choice.
* The semaphores get strong fairness (`SF` of the lock steps) beside it. System V wakes
  the processes that sleep on a semaphore in the order they came; for POSIX the
  code's `sleep(1)` and `sleep(3)` outside the lock leave every rival a turn.
* `systems` assumes fairness of the copier's two processes only. The other programs in it have safety
  properties: a chat user, a process at the device or a writer of the LEDs may stop for ever. What the
  chat owes at the end, the farewell, is part of `Conversation` in its safety form: who is over has sent it.
* Message queues and pipes get none beyond weak fairness: room, once made, is there until
  the one writer takes it in the instances checked for liveness.

What liveness cannot promise is in the properties: `Drained` needs a consumer that is
not killed, `ConsumersEnd` excepts a semaphore that got no value because the producer was killed
before `SETVAL` (`NeverSet`), `PartnerLeaves` allows a partner that waits for its keyboard,
`BlockedByUnread` allows the broker to block for ever behind messages of
processes that have stopped reading.

## 5. Findings

1. `broker_refused`: a subscriber that names one topic twice makes `del_pid` read through a
   null list when it leaves. The queue of the crashed broker stays, and a new broker
   says "Брокер уже запущен, выход" (`module3/02/src/main.c:292`). `CrashNeedsRepeat`
   shows that nothing else crashes it.
2. `array_book_edit`: `handleEditContact` of 2.1 announces the selected contact, looks its
   place up once and passes it to `editContact` for each letter, which sorts the array
   every time. After a letter that changes a name and moves the contact, the next
   letters change another one, and the dialogue ends with "Выбранные поля контакта
   успешно обновлены" (`menu.c:238`). The list (6.1) and the tree (4.3) look the contact up
   again for each letter; their `EditSticks`, in `ListIntact` and `TreeIntact`, shows when that is enough.

Two smaller disagreements between messages and behaviour have no run. A consumer of 04 says
"Память пуста, работа завершена" (`module3/04/src/consumer.c:83`) whenever a pass claimed nothing,
also while the producer is between two blocks; `EmptyExit` shows what is true instead:
memory is empty at that moment. And "Семафор был удален. Завершаю работу."
(`module3/05/src/consumer.c:24`) is never said: `sem_unlink` takes the name, not the
semaphore, and `sem_wait` never returns `EINVAL` for it.

The properties name the conditions under which the smaller programs keep their promises, and
each condition is a weakness of the code. `NoEcho`: a nickname of 31 characters loses its end in all but the first
datagram, and then no longer equals itself (`module3/06/src/chat.c:127`). `CodeThere`:
`try_module_get` from inside `device_open` comes too late when `rmmod` is under way (`chrdev.c:71`), and a
write between `proc_create` and `kmalloc` meets no buffer (`proc.c:78-85`). `ShownIsLit` and `GivenBack`: two
overlapping stores, or one during the removal, leave the LEDs at another value than the one shown or restored; and `set_leds`
knows only the console in the foreground (`kbd_led_sysfs.c:33-39`): after a switch, `state` shows what is lit on another console,
and the removal gives back the LEDs of the console it finds, not of those that stores had set.
`BothEnd`: with FIFOs, which both processes hold open, a parent that misses a file or a child that cannot open a
copy leaves the other one waiting for ever.
`AsChmod`: a clause with `=` takes their rights from everybody it does not name (`chmod.c:130`).
The properties of the phonebooks name the conditions under which the code keeps its
promises: an id can occur twice in the array only after an edit took the id of
`contact[0]`, which the test `checkIdx > 0` lets pass (`TwinsComeFromFirst` in `ArrayIntact`); a rename loses a
contact of the list only after ids became equal or memory ran out (`Kept` in `ListIntact`).

## 6. What is proved

`ShmSysVProofs`, checked by TLAPS for every set of consumers, every segment size, every
range of drawn counts and any number of kills, from `ShmAssumption` alone (the segment is larger than
a header, blocks have at least one number, bounds are natural numbers):

| Theorem | Property |
|---|---|
| `Invariance` | `IInv` |
| `TypeCorrect` | `TypeOK`: in particular the semaphore stays at 0 or 1 |
| `Exclusion` | `MutualExclusion` |
| `MemorySafety` | `InBounds` |
| `ClaimedOnce` | `TakenOnce` |
| `EmptyExitIsTrue` | `EmptyExit` |
| `Refinement` | `ImplementsPool` |

The argument. None of the properties is inductive. `IInv` (module `ShmSysVInv`) has
six parts, each with a lemma that every step preserves it:

* `TypeOK`;
* `SemInv`: which life the segment and the semaphore have at each place of the producer,
  and that the value is zero when somebody is inside;
* `LayoutInv`: the blocks written so far tile the segment up to `curr`, each one links to the
  next, and what was never written holds zeroes;
* `PointerInv`: `off`, `nxt`, `ptr` and every `next_addr` is a block or the place of the
  next one. This is why a consumer that walks to an announced header before it is written
  reads zeroes and nothing else;
* `ClaimInv`: a header's count is the block's size until it is claimed and zero after, and a
  consumer that has read a count under the lock still finds it when it claims;
* `WalkInv`: a consumer that has claimed nothing in this pass has only claimed
  blocks behind it. With `NothingAfter` (nothing full lies after the end of the chain)
  it gives `EmptyExit`, and the same for the producer's scan gives the refinement: `Close`
  happens only when everything produced was taken.

`TakenOnce` holds beyond the life of the semaphore: after `rmsem` consumers run unlocked, but
`Closing => count = 0` leaves them nothing to claim.

`ShmPosixProofs`, for every set of producers and consumers, every number of blocks and of kills, from
`PosixAssumption` alone (at least one block, and `None` is no producer):

| Theorem | Property |
|---|---|
| `Invariance` | `IInv` of `ShmPosixInv` |
| `TypeCorrect` | `TypeOK`: no semaphore exceeds one, also after it was unlinked |
| `Exclusion` | `OneInside` |
| `OnlyByMixing` | `MixedOnly` |
| `Refinement` | `ImplementsPool`, for the segment of each producer |

The argument. `NameInv`: a producer that lives and has not come to its unlinking owns the names, so that nobody
unlinks another producer's object, and no handle to a semaphore exists before the semaphore does. From it
follows `SemInv`: a process that is inside has the one unit of its semaphore, so that a post never raises it above one.
`ChainInv` says what the headers look like and what the final check has established behind it; it
holds however consumers are guarded, because claiming never publishes a block, and it gives the refinement. Only
`ClaimInv` needs that every consumer of a segment opened the semaphore that belongs to it (`Guarded`), a
condition that, once broken, stays broken (`GuardedStep`): from it a block is claimed once, and without it twice, as
two consumers of one segment behind two semaphores would do.

`BrokerProofs`, for every set of publishers, subscribers and topics, all command lines, every capacity and any number of
lines, signals and rival brokers:

| Theorem | Property |
|---|---|
| `TypeCorrect` | `TypeOK` |
| `StreamsKept` | `StreamsIntact`: what a subscriber reads is each publisher's lines once, in order, without a gap |
| `SubscriptionsOrdered` | `SInv` |
| `NoCrash` | `CrashNeedsRepeat` |

The argument. The one place where `del_pid` meets an empty list is an unsubscription from a topic nobody is subscribed to.
`Pair(s, k)` follows the k-th topic of a subscriber through three stores, its own place in the loop over `argv`, the
messages of the broker and the broker's lists: what was subscribed is known or under way, and an
unsubscription in the queue comes after its subscription, once. It needs `Loop` (the indices stay in `argv`), `Origin` (only what is
on the command line is taken back), the order of one receiver's messages, and that nobody names a topic twice. The
lists themselves are handled by lemmas (`SubscribeAdds`, `UnsubscribeKeeps`): neither operation loses anybody but the pid it
is asked for, from the one topic it is asked for.

For `StreamsIntact` a line is followed from its publisher's `msgsnd` through the broker's fan-out into the queues of the
subscribers. `Streams` adds to the two properties what holds while the broker serves: the lists know every subscriber the
broker serves, once (`Lists`); a publisher's lines lie in the queue in the order in which they were sent, and continue what the
broker has read (`Lines`); a subscription that is being taken back is still to come (`Leave`); and for each subscriber and publisher,
what was read and what is under way continue each other (`Follows`). It breaks with a fan-out that
skips somebody when the queue is full. Nothing is promised once the broker goes down, where it stops reading.

`MqChatProofs`, for every set of processes, every capacity, any number of lines, Ctrl-C and kills, from `ChatAssumption`:

| Theorem | Property |
|---|---|
| `TypeCorrect` | `TypeOK` |
| `TextsUnbroken` | `Unbroken`: who stays in a conversation reads what the other one wrote, whole and in order |
| `Ownership` | `NInv` |
| `NamesAreManaged` | `NamesManaged` |

The argument. The names are taken away by creators only. `Fresh`: a process between its two exclusive opens that got
the first name still has it, because there is no creator that could have removed it. `Owner`: therefore
who becomes creator owns both names, and nobody else can make them until it unlinks each; two creators would own the same name. All
steps of the conversation itself are one case (`Moves`): they leave names and roles alone.

`Unbroken` rests on `Streams`, four facts about every queue: each message comes from a process that has written it (`Origin`),
messages lie sorted by priority, then by age (`Sorted`), as `mq_send` and `mq_receive` keep them, what was sent
and neither read nor lost is there (`Whole`), and what was read is in order (`InOrder`). The type invariant
needs the roles (`RoleInv`): which descriptors and buffers a process has at each place.

`DeviceProofs`, for every number of processes and every size of buffer and calls that is a natural number (`Sizes`; the
theorem on types also takes that there are finitely many processes, because it counts them):

| Theorem | What it states of `Device` |
|---|---|
| `TypeCorrect` | `TypeOK` |
| `CodeIsThere` | `CodeThere` |
| `ReadsAreInBuffer` | `InBuffer` |
| `ReadersFollowLog` | `ReadersSeeLog` |

The argument. `CodeInv`, for the module's life, relates three things: the count of `chrdev` is the number of its holders while it lives; so `rmmod`
begins only when there are none, and whoever holds the file afterwards came through the window in `device_open`; and who writes to the
proc entry has a buffer or came before it, because `remove_proc_entry` waits for the handlers before `kfree`.

`MsgInv` is about what the buffer holds. It is needed because handlers run without a lock: a `read` copies while a `write` is half done.
`Bounded`: everything below any offset or length in use was cleared at the start or written since (`Solid`), whoever
overlaps, so that a reader gets nothing from beyond. `Logged`: as long as no two writes have overlapped, the message is what the log of
finished writes says (`Same`), there is one writer at most (`OneWriter`), and reads and appends
under way start from the offset and the length they took (`Reads`, `Appends`). `Early`: before the first write there is nothing to read.

`PipeCopyProofs`, for every set of files, command line, size, number of edits, buffer and pipe, in both kinds
of channel, from `PipeAssumption` alone (the bounds are natural numbers and a buffer holds at least one byte):

| Theorem | What it states of `PipeCopy` |
|---|---|
| `TypeCorrect` | `TypeOK` |
| `CopiesAreExact` | `CopiesExact` |
| `CopiesStay` | `CopyKept` |

The argument for `CopiesExact`. `CChunk` would lose bytes after a read that comes back short, because the code subtracts what it asked for.
`OnTheWay(f, w)` says why none does: what is in the pipe starts at the child's position, a whole number of buffers
(`Mark`), and ends with a buffer or with the file, so that a pipe which is not empty holds all the child asks for (`ChunkWhole`). That a record meets an
empty pipe is the handshake: an `R` exists only while the child is idle (`Idle`), and the parent has taken it before it
sends a record (`Asked`). Files named twice are why the files before are whole "but for" the one on its way (`WholeBut`).
That invariant is stated for a conversation that goes on (`Going`): it ends with a change of a file, a missing file, a copy that does not open
or a fatal write.

The argument for `CopyKept` and the types is a second invariant, `PInv`, which holds in every conversation, also one in which files
change. There is one `R` and one record between the processes at any time (`OneRecord`), so that a record is read as what it is only by
an idle child, and while the parent waits, its ends closed, the record of the end is still there for a child that reads (`EndSent`). A copy that is not empty belongs to a file whose record was sent (`CopiesGiven`, `Given`). What makes a copy empty
afterwards is a record: of a file that is named again, or, after the parent has failed, of what the end of the pipe leaves in the
child's buffer. `CopyKept` names the two, and `CopiesStay` shows that there is no third.

`SystemsProofs` carries these over to what `MCSystems` runs and adds the LEDs and the UDP chat, from `SystemsAssumption`
(sizes and bounds are natural numbers, buffers are not empty, there are finitely many processes,
and only the longest nickname loses its end):

| Theorem | Property |
|---|---|
| `CodeIsThere` | `CodeThere` |
| `ReadsAreInBuffer` | `InBuffer` |
| `ReadersFollowLog` | `ReadersSeeLog` |
| `LedsFollowState` | `LedsFollow` |
| `ChatKeepsFaith` | `ChatIntact`: the conversation by UDP and what a user never sees |
| `CopiesStayWhole` | `CopiesKept` |
| `TypeCorrect` | `TypeOK`, of whichever program runs |

A run of `MCSystems` chooses one program and keeps it (`OneProgram`), so that a run with the device is a behaviour of
`Device` (`DevRuns`) and the theorems of `DeviceProofs` hold of it. The LEDs are proved here (`LedInv`): while no two stores overlap, the one that
has set `test` and not yet the LEDs is alone (`OneStore`), so that the LEDs follow on the console it finds (`Lit`, with the lemma `Setting`: one call changes one console at most). Only consoles that
stores reached differ from what was there before (`Lent`), and after the LEDs were restored those of the console that was found stay so
while no store is under way (`Returned`).

The UDP chat is proved here too (`ChatInv`). A sender numbers what it sends, ends with its farewell, and keeps room for
what it has still to send (`Diary`). Every datagram on its way, shown or in the receiving thread comes from somebody who sent it (`FromUsers`),
what is shown passed the filter (`Filtered`), and it is there, shown and on its way together, at most as often as network and
signals have copied it (`Once`, by counting places in sequences). For a receiver that nothing was lost, repeated or reordered for, and each sender with another nickname
(`Follows`): both sequences ascend in the sender's numbers, what is shown lies before what is on its way, nothing is older than the
receiver's bind, and every datagram since then is in one of the two.

The copier is a behaviour of `PipeCopy` once chosen (`CopierRuns`), as the device is of `Device`. `TypeCorrect` puts the four
programs' types together: what is not chosen stays at rest (`CopierRests` and its like).

`Module2Proofs`, for any finite sets of items and nodes, any ids, names, priorities, plugins and clauses and any number of
operations, from `Module2Assumption` (the null pointer is no node, capacities are positive, names and ids are positive numbers,
users and rights are among those of `chmod`):

| Theorem | Property |
|---|---|
| `PopsTakeFirst` | `QueuePopsFirstThatSuits` |
| `ListStaysIntact` | `ListIntact`, of 6.1 and 4.1 |
| `ArrayStaysIntact` | `ArrayIntact` |
| `MenuAlwaysHolds` | `MenuHolds` |
| `BitsStayAsChmod` | the part of `BitsAgree` that is about the permission bits |

The argument. One program moves (`OneProgram`), and `ProgramsInv` gives each an invariant of its own.

A linked list is described by the sequence of nodes that a walk along `next` meets (`Linked` for the queue, `LinkedAs` for the
phonebooks, which have `prev` too). The walk is a recursive function of the number of hops; `Walked` shows that it
meets this sequence and then the null pointer. Tying a node off or in, however the code does it (`Tied`, `TiesOff`, `TiesIn`), is
taking an element out of the sequence or putting one into it (`LinkedWithout`, `TiedOff`, `TiedIn`, about `Without` and `With`).

* The queue (`QInv`). `Line(s)`: whatever is ahead in the list `s` leaves before what is behind (`Ahead`), and the
  items in it are those that have come and not left. The three pops look from the front on, two of them no farther than the first item or the first
  match, so that `Line` makes the item they find the right one. An insertion keeps `Line` because it
  goes behind all equal ones (`AheadComes`), a removal because it changes no two others' order (`AheadStays`).
* The list phonebooks (`ListInv`, `PlainInv`). `Book(s, l)`: the list is linked as `s`, sorted, and exactly the nodes on it have a
  contact. `AddIs` and `RemoveIs` show that addition and removal lead from one `Book` to another. Nobody is lost because each card owed
  (`Owed`: added and not removed) is on the list (`There`), unless ids became equal or memory ran out. A rename is two steps in one, and between
  them (`TakenOut`, `PutBack`) the contact is in no list: that it comes back needs that its id is free, which is why `clashed` is in the invariant.
  `Held` carries the dialogue: its contact is on the list under the id it asks for.
* The array phonebook (`BInv`). Cards tell contacts apart (`CardsApart`), so a book of n contacts has n different ones, and `qsort`, which
  returns n places with the same contacts, can neither lose nor repeat one (`SortKeeps`, by counting). The lemmas on the four changes
  of the array (`AppendOne`, `DeleteOne`, `ReplaceOne`, `SortKeeps`) then give each operation. Uniqueness of ids needs what
  `getIndex` is sure not to have overlooked (`IndexFound`): only the test `checkIdx > 0` lets a second one in.
* The calculators (`CInv`): what `readdir` has still to return is not in the table, so that no library gets two lines.
* The chmod simulator (`Agree`): on a clause that both understand, the loop of `chmod.c` and `chmod(1)` do the same (`SameChange`).

## 7. What is only model-checked, and what is not modelled

Liveness under fairness is out of TLAPS's reach and stays with TLC: `BothEnd`, `Drained`, `ConsumersEnd`, `SubscribersEnd`,
`Forgotten`, `BlockedByUnread`, `PartnerLeaves`. So does what needs induction over
data, in `MCModule2`: the tree phonebook (`TreeIntact` and the tree's part of `TypeOK`), because insertion, removal and rebuild are defined
by recursion on the tree, and the subnet checker (`SameNetwork` in `BitsAgree`), where numbers are sums over the bits of a word. The types of the
other programs of `module2` are model-checked in the same `TypeOK`; those parts of them that the theorems need are in `ProgramsInv`.

Not modelled, and why:

* Failures of `ftok`, `fork`, `pipe`, `shmat` and the like, where the programs print and return: they keep no
  state that outlives them. `malloc` fails only in the list phonebooks, where that loses a contact or crashes, and
  in the proc entry.
* The numbers in the blocks; text; the `O_CREAT` permissions; how the menus parse what is typed,
  except where the parsing decides what happens (`Calculator`, `Permissions`).
* In `Device`, threads or a fork that share one open file, whose offset `chrdev` does not lock, and
  `pread` and `pwrite`, which bring an offset of their own.
* The start value of `count` in 3.2, which `main` does not initialise: `Subnet` counts by how much it has
  grown. Addresses with fewer than four parts, which leave octets uninitialised.
* No promise is made about a `chmod` command with an unknown character, which never ends, nor about a UDP user whose
  `bind` failed: both are in the models, as place `endless` and as a user outside `bound`.
* `module5/lab1` and `lab5`: hello keeps no state; the netlink handler answers one message with
  a constant inside the sender's `sendmsg`, so that no two of its steps interleave with anything.
* Unity: six copies of a third-party test framework. They are 29 thousand of the repository's 36 thousand
  lines of C, which is why the share of lines that the modules stand for is small although every
  program of the repository that keeps state is modelled.
* `module1` and `module4` hold reports and logs, no programs.

## 8. The plan

Order of work, the most important behaviour first:

1. done: `BlockPool`, `ShmSysV` and `ShmPosix` with their proofs, `Broker`, `MqChat`, `PipeCopy`;
2. done: the programs of `module2`: `PriorityQueue`, `ContactList` with `ContactListPlain`, `ContactArray`,
   `ContactTree`, `Calculator`, `Permissions`, `Subnet`;
3. done: the kernel modules `Device` and `KbdLed`, and the UDP chat;
4. done: proofs about all of these but `ContactTree` and `Subnet`: every invariant of every run outside `module2`, and of
   `module2` the queue, the list and array phonebooks, the calculators and the chmod simulator;
5. left, and out of the provers' reach here: the tree phonebook and the subnet checker (section 7), and liveness.
