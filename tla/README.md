# Vitalnix in TLA+

Vitalnix manages user accounts: a library (libvxdb) with one interface to
several account databases, the drivers behind it, a library that brings a
database into agreement with an external list of people (libvxmdsync), and the
command line and graphical programs on top.  Beside that it accounts for the ink
of print jobs and makes up passwords.  This directory holds TLA+ specifications
of the parts whose correctness depends on the order of things: who may write
when, what a crash leaves behind, what a repeated run does, which id is free,
what two programs that run at once make of one table.  TLC checks them on small
instances; TLAPS proves the central properties of six of them for every instance.

Paths are relative to `src/` of the source tree unless they start with `doc/`
or `etc/`.

## 1. The system

| part | state | operations | who calls it |
|---|---|---|---|
| libvxdb (`libvxdb/`) | the handle of a loaded driver | load, unload, and a vtable of open, close, lock, unlock, modctl, user, group and membership operations; dummies for what a driver lacks | every program |
| shadow driver (`drivers/shadow/`) | four files (passwd, shadow, vxshadow, group), an fcntl lock on the passwd file, and in each process two lists and their marks "changed" | the vtable; a flush that writes all files in place | libvxdb |
| mmd driver (`drivers/mmd.c`) | other drivers' handles: some to read, one to write; a traverser that goes through all of them | the vtable, each call handed on | libvxdb, and itself calls libvxdb |
| ldap driver (`drivers/ldap.c`) | a connection; the entries are at the server | the vtable, each call one or more requests, no lock | libvxdb |
| nss, nss1 drivers | lists read when the handle is opened (nss), or the C library's streams, of which a process has one each (nss1) | reading only | libvxdb |
| dummy driver | none | nothing but dummies | libvxdb |
| mysql driver | a connection | the vtable; unfinished | libvxdb |
| libvxmdsync (`libvxmdsync/`) | a workspace: who is to be added, updated, given or relieved of a timer, deleted | read_file, compare, fixup, add, mod, del | usersync, newuser, steelmill |
| account tools (`clutils/user*.c`, `group*.c`, `fixuuid.c`) | none between runs; home directories | one run: open with the write lock, check, change, work on the home directory, close | the administrator |
| groupbld | none between runs | one run over the accounts, changing groups | the administrator |
| lpacct (`lpacct/`) | a print job's image and the sums of its pages; the table printlog and the system log | filter, confirm, analyze | the print spooler |
| password generator (`libvxutil/genpw.c`) | the buffer of a call | one call | randpw, libvxmdsync |
| reports (dbdump, dbinfo, finger, id, pwlfmt), ckuuid, login helpers | none | reading | users |
| libvxeds, libvxmdfmt, libvxutil, libvxcli, libvxcgi | none that lasts | parsing, typesetting, strings, hashes, prompts | the programs |
| libvxcore | a map of modules and a mutex | register, unregister, look up | plug-ins |
| steelmill | dialogs | as usersync, newuser, usermod, fixuuid | the administrator |

The parts meet in four ways.  Programs call a driver through libvxdb's vtable,
and mmd calls further drivers through it.  Processes meet only in the data: for
the shadow driver through files and the fcntl lock, for the ldap driver through
single requests to a server.  Runs of usersync, newuser and steelmill meet
earlier runs in what these have stored: the uuid, the class (private group) and
the start of the deletion timer.  And the filter and the backend of a print job
run at once and meet in the rows of printlog.

### What is hard, part by part

*Shadow driver.*  Readers take no lock and read four files one after the other.
Writers keep a copy from open to close and write all of it back.  Files are
written over in place and truncated afterwards, so a crash leaves old lines
behind new ones, or two files that do not belong together.  A handle can be
upgraded by `vxdb_lock()` in the middle.  It is right if nobody writes without
the lock, nobody's changes are written over, the files agree except during a
flush and after a crash in one, the next complete flush repairs the latter, and
every session ends.

*Automatic ids.*  Signed and unsigned types of different width meet in the
search.  It is right if the id given is free, within the limits, and refused
only when there is none.

*mmd driver.*  Several modules, each of which may fail to load or to open, or to
answer.  It is right if it is loaded and opened as a whole or not at all, if a
traversal that ends without an error has returned everybody once, if lookup,
traversal and count tell the same story, if a change can be read back at once, and
if a new id is new to all modules.

*ldap driver and groupbld.*  A call is made of several requests, between which
other clients come, and each of which may be refused.  The driver reads which
attributes there are and then decides between adding and replacing; it renames a
group by adding one and deleting the other.  It is right if attributes do not
collect values and gids are not lost; groupbld is right if everybody ends in the
group of his class and in no second one on the way.

*nss drivers.*  Files change while they are read; a stream of the process is
shared by all handles.  They are right if traversals are complete and answers
are of one account.

*libvxmdsync.*  A run can fail at any call, leave out parts, wait for an answer
over midnight, or be killed, and is repeated on later days by another program
while people come and go.  It is right if nobody gets two accounts, new names are
free, strangers' accounts stay as they are, a completed run has done everything,
and an account is kept as long as the timer promises.

*Account tools.*  Checks are followed by changes to the copy, by work on the
directories at once, and by storing the copy.  They are right if names and ids
stay unique, groups in use stay, a refused run changes nothing and nobody loses
his home directory to somebody else's run.

*lpacct.*  Pages arrive in short reads, the renderer may die, the database may
fail, the job may be tried again.  It is right if ink and pages are counted in
whatever portions they come, only printed jobs are confirmed, and all ends.

*Passwords.*  A try that lacks what was demanded is thrown away and started
again.  It is right if what is returned has what was asked for, fills the
buffer, and comes in the end.

`PROJECT.json` lists the single hazards, each at its line and with the
properties that cover it.

## 2. The modules

```
 ShadowFiles            lines, lists, reading, writing, operations   (pure)
   |        \
 ShadowDb   SerialDb    processes, lock, flush | the atomic database
   |  \______/          ShadowDb implements SerialDb (refinement)
 MCShadowDb             ShadowDb_proofs

 AutoId                 the choice of an id, both copies, in C arithmetic;
   |                    AutoId_proofs
 Mmd -- MCMmd           instantiates AutoId for its own lists; Mmd_proofs
                        instantiates AutoId_proofs in the same way

 LdapDb                 clients of the directory, request by request
   |
 GroupBld -- MCGroupBld vxgroupbld beside them; GroupBld_proofs

 Libvxdb                loading drivers, the vtable
   |
 NssDb -- MCNssDb       both NSS drivers, through Libvxdb's handles; NssDb_proofs

 AccountTools -- MCAccountTools      seven programs on the copy of a database;
                                     AccountTools_proofs

 MdSync -- MCMdSync     usersync, newuser, steelmill; MdSync_proofs

 PxCost                 ink of a chunk of pixels (pure)
   |
 Lpacct -- MCLpacct     filter and backend of a print job; Lpacct_proofs

 Genpw -- MCGenpw       passwords, which libvxmdsync gives to new accounts; its
                        proofs are the last part of MdSync_proofs
```

Operators whose names end in `_Word` and are marked "mutant" are deliberate
mistakes (a dropped guard, a missing reset).  No specification uses them; they
stand next to what they would replace, to test that the properties notice.
Variables marked "history" record what has happened and are read by properties
only.

### ShadowFiles, ShadowDb, SerialDb

`ShadowFiles` has the data.  `dq_user` and `dq_group` are sequences of records,
a file a sequence of lines.  Each reading function (`db_read_passwd`,
`db_read_shadow`, `db_read_vxshadow`) and each writing one (`WriteImage`) does
what the code does with duplicates, orphans and missing entries: a shadow line
goes to the first user of its name, a user without password is written with
"!".  `Overwritten` and `Truncated` are the two halves of writing a file in
place.  The operations (`useradd` ... `groupdel`) yield the set of lists they may
leave, empty on an error.  `groupadd` has the existence test as the code has it
(`drivers/shadow/shadow.c:329`): a name that is not there is refused.

`ShadowDb` adds the processes.  `pc` follows the code: "locking" and "reading"
are `db_open()`, "ready" is an open handle, "writing" and "truncating" are
`db_flush()` with `at` counting the files, "releasing" is the end of
`db_close()`.  `goal` says who called `db_close()` or `db_flush()`: the
close, `vxdb_lock()`, which reopens, or `VXDB_FLUSH`.  `base` (the files as they
were when the handle's copy was begun) and `torn` (whether the last flush was cut
short) are history.

| action | code |
|---|---|
| `Open`, `AcquireLock`, `ReadPasswd`, `ReadGroup`, `ReadShadow`, `ReadVxshadow` | `vxshadow_open()`, `db_open()` |
| `UserAdd` ... `GroupDel` | `vxshadow_useradd()` ... with `RWLOCK_CHK` and `TOUCH_*_TAG` |
| `ModctlFlush`, `WriteFile`, `TruncateFile` | `vxshadow_modctl()`, `db_flush()`, `db_flush_users()`, `truncate_here()` |
| `Close`, `Release` | `db_close()`, `free_data()` |
| `Lock`, `Unlock` | `vxshadow_lock()`, `vxshadow_unlock()` |
| `Crash` | the process is killed at any value of `pc` in `CrashPoints` |

`vxshadow_open()` masks `VXDB_SYNC` away, so the `db_flush(state, false)` at the
end of each operation does nothing, and an operation touches memory only.
`db_open()` asks for the lock when its flags are exactly `O_RDWR`, which is the
value of `VXDB_WRLOCK`: a handle with `VXDB_ADMIN` in addition gets none.

`SerialDb` is what callers may believe: one owner at a time, a whole copy, one
atomic commit.  `ShadowDb` maps to it with the files taken to change when the
owner begins to write them (`Files`, `Owner`, `Work`, `Changed` in `ShadowDb`).

### AutoId

One loop over the user list finds the highest id in the range, a second one the
first free id.  The ids are `unsigned int`, the highest is an `int` that starts
at -1, and the comparison is unsigned in shadow and signed (`long`) in mmd.
`M` stands for 2^32, and `Signed`/`Unsigned` are the C conversions; so the
search of the shadow driver never finds a highest id and it gives out the lowest
free one, which is what `ShadowFiles.automatic_uid` says in one line, and the
mmd driver the successor of the highest.  `wide` is whether a `long` is wider
than an `int`.  `UID_MAX` may be any unsigned int but the last few; above INT_MAX
the search of the mmd driver goes wrong (section 5).

### Mmd

`phase` is the state of the mmd handle, on its way included, and `at` the module that
a loop has come to: `modules_construct`, `modules_destruct`, `modules_open` and
`modules_close` are one turn of the loops of these names, of which any may fail.
`inst` is what the calls made of each module, `mh_state` what the handle has on
record of it; the loops that clean up go by the record.  The entries are kept by
kind, since the user and the group functions are the same text.  Lookups and counts
take the set `ok` of modules that answer, as an error of a module counts as "no such
entry" (`drivers/mmd.c:252`) or counts nothing (`:121`).

A traversal is in steps: `vxmmd_usertrav_walk` enters the function, `WalkWriter`,
`WalkReader`, `SkipReader` and `WalkEnd` are its turns, and `WalkFails` hands a module's
error to the caller; callers add, change and rename entries in between.  A module
that gives no traverser is left out, as in the code, and goes into `skipped`, which
is history, like `due` and `seen`: who was there when the traversal began, and who
has been returned.  When the code hands a freed traverser to the next module the
outcome is undefined; the model keeps a mark `live` on traversers, and lets the
freed one yield nothing.

The search for an id walks the list twice, and takes a walk that fails for one that
has ended (`:491`).  So `vxmmd_autouid(bad, wanted)` is the set of the ids it may come
to when the modules in `bad` may give no traverser or fail at any entry: `Walks` has
what each pass may see, and `ChosenFrom` what AutoId's search makes of it.

### LdapDb and GroupBld

A client's call is an action per request: `pc` is the next request, `rq` the call,
`seen` the entry that the call has read.  `usermod` is a search (`getattr`), a
modification and perhaps a rename (`usermod2`); `groupmod` with a new name is
`groupmov`, `groupmov_add`, `groupmov_del`.  `Refused` lets the server refuse any
request.  What the server refuses for a reason that the driver provokes (a second
value of a single-valued attribute, a value that is there) is `ModifyOK`.  Of the
attributes cn, gecos and vitalnixGroup stand for the three ways in which the
driver treats them.  `raced`, `dropped` and `crossed` are history: accounts in
which two usermods overlapped, gids given up on purpose, two renames at once.

`GroupBld` adds the steps of `vxgroupbld`, named after its functions, and makes
`Next` the interleaving of them with the clients' requests.  `others` is history:
whether the accounts may have been changed by a client since vxgroupbld read them
(or are yet to be read).

### Libvxdb and NssDb

`vxdb_load(h, name, stage)` goes through the stages of loading, each of which may be
the last; `vxdb_fix_vtable` says for each function whether the driver or a dummy
is called.  `NssDb` has one process with several handles.  For nss, opening reads
passwd, shadow and group in three steps between which the files may be replaced
(`HostChange`); for nss1, `stream` is the position of `getpwent()` and
`getgrent()`, which every handle's traversal and `modctl` (counting) move.  The
C library is external: `System`, `getspnam`, `Current` and `EndEnt` say what the
code relies on.  A line may be `long`: `getpwent_r()` and its like fail at one that does
not fit into 1024 bytes, with which the lists of nss end (`Readable`).  `dest` is the
caller's struct, which is used again: `vxdb_user_copy` and `nssuser_copy` change the
fields that the code changes, so that nss1 leaves an old password where there is no
shadow line, unless the walk has cleared the struct (`Clean`) first.  `kept` is history:
structs of which the last lookup of nss1 has left the password.

### AccountTools

`Open` gives a run the copy `db` of the stored accounts `file` (what SerialDb
promises), `Close` stores it whatever the run returns, `Kill` ends the process in
between.  Between them each tool has the action named after its function:
`useradd_run3`, `mkdir`, `chown`; `userdel_run3`, `rrmdir`; and so on.  `dirs` are
the directories with their owners, and change at once.  `Return` values are the
names in the code.  As in the code, `-g` of vxuseradd has no effect (it sets
`pw_igrp`, `clutils/useradd.c:182`, and the driver takes `pw_gid`), and neither
have `-m`, `-o`, `-L` and `-U` of vxusermod.

### MdSync

One variable `pc` goes through the run: compare, fixup, add (with flush and home
directory for each person), mod, del (with home directory and account for each
person), close.  `prog` says which program it is: newuser adds one person and is
done; steelmill asks once more before it goes on and continues after a failed
part, where usersync stops.  `db` is what the run sees and `file` what is stored:
equal at a flush, or always with `WriteThrough`.  `Fail` is an error of any driver
call, "skip" in `Faults` the parts that `ask_continue()` or `--no-add`, `--no-mod`, `--no-del`
leave out, `Crash` a killed process.  Between runs `EdsChange` edits the list;
`NewDay` also comes while a run waits for an answer.

`mdsync_compare` compares the new class with the uuid, as `libvxmdsync/proc.c`
does, so that everyone found is in `update_req`; and `Update` happens only when
a timer is to be started or stopped, as in `sync_mod()`.

`Given` is the loop of `mdsync_fixup()` over the people without an account, with
`Named` for one of them.  `format_name` is any function of a name and a number up
to `MaxIndex`, which in the code is 9999; different numbers may make the same
name, as the name is cut to make room for the number.

### PxCost and Lpacct

`PxCost` has the four analyzers of `lpacct/drop.c` for one chunk, next to what the
comments there say a single pixel is to cost, but for the weights of gray, which
are the code's (section 5).  `drop2bl` turns droplets into the area they cover, at
the resolution that `ghostscript_init()` uses (`Resolution`, 2 for a DPI of 1).
`Lpacct` has the filter (`filter` is its place in `lpacct_filter_main()` and
`mpxm_process()`) and the backend wrapper (`backend`), which run at once.  `out`
is what Ghostscript will have written when it ends, early or not;
`mpxm_chunk_next` takes any part of it that is there.  `Retry` is the scheduler
after a failed backend.

### Genpw

A draw of `genpw_jp()`, `genpw_zh()` or `genpw_random()` that the code accepts is an
action (`put_digit`, `put_syllable`, `put_letter`), a draw that it rejects is no
step.  `redo` is the recursive call when something demanded is missing (`unmet`).
`plain` is the sequence of pieces (digits, syllables, letters) from the front;
`Filled` adds up their characters.

## 3. The runs

| run | instance | what it shows |
|---|---|---|
| `shadow_api` | 2 processes, 2 operations each, every operation with every kind of argument, 2 initial disks (one with a user missing in shadow) | `TypeOK`; `HolderInSync`: an unmarked copy of the lock owner is what the files say; `Serializable`: ShadowDb implements SerialDb |
| `shadow_crash` | 2 processes, 2 sessions each, readers, writers and an upgrade, 1 crash anywhere | `FlushHoldsLock`, `WriterHoldsLock`, `NoLostUpdate`, `FilesAgree` |
| `shadow_live` | 2 writers, a crash, a `vxdb_unlock()` | `SessionEnds` under fairness |
| `autoid` | 16 numbers, range 3 to 6, 4 accounts, both drivers, both widths of a long | `ChosenIsFree`, `LowestOrNext`, `GivenWithinLimits` |
| `mmd_one` | a writer and one reader with users, a group and a membership; each failing to load, to open, to give a traverser, in the middle of a walk, in a count | `AllOrNothing`, `TraversalComplete`, `ReadsAgree`, `ChangesVisible`, `AutoIdIsNew` |
| `ldap` | vxgroupbld, without `-G`, with a group and with a number, and 2 clients with 2 calls of 16 kinds, any request refused | `OneValue`, `GidKept`, `BuildComplete`, `NoSecondVUG` |
| `ldap_move` | vxgroupbld and three calls | violated: `OneVUG` |
| `nss` | 2 handles, 2 contents of the files, one with lines that are too long, both drivers, every failure of loading | `TypeOK`, `NoLeak`, `WalkRight`, `AnswerWhole` |
| `tools` | 4 runs of 7 programs with 23 requests; failures and kills | `AllOrNothing`, `NamesAndIdsUnique`, `HomesKept`, `PrimaryKept` |
| `sync_faults` | 2 people who want the same name, 2 accounts in the way, 3 days, timer of 2 days; three programs; failures, omissions, crashes | `UuidOnce`, `NewNamesFree`, `OutsidersUntouched`, `SyncComplete`, `KeptSinceDone` |
| `lpacct` | a job of two pages for each colour space, every fault, 2 attempts | `CostRight`, `EntryMade`, `ConfirmedPrinted`; `JobEnds` under fairness |
| `genpw` | 3 methods, 9 wishes, buffers of 0 to 6 characters | `Characteristics`, `FullAndReadable`; `CallReturns` under fairness |

The comment before each property in the modules says what it means and what it
excepts; the exceptions are cases in which the code does not do it.

### Bounds, and why they are enough

*Two processes.*  The interesting interleavings of the shadow driver are between
the owner of the lock and one other: a reader in the middle of the owner's flush,
a writer that waits, a process that upgrades.  A third adds waiting only; the
proofs cover any number.  `MaxSessions` of 2 lets a process come back after a
crash or an upgrade (`shadow_crash`); `MaxOps` of 2 lets an operation follow a
flush in the same session (`shadow_api`); `MaxCrashes` of 1 together with a second
session shows the repair.  The disks have two users so that a deletion makes a
file shorter and the truncation matters.

*Ids.*  16 numbers with `ENOSPC` = 3 keep the proportions of the C types: ids
above the middle are negative as `int`, and the reserved numbers at the top do
not meet the range.  Four accounts fill the range of four, so that both the last
free id and the refusal happen.

*mmd.*  One reader with two users, a group and a membership, and an empty writer
that takes up to two entries.  Names of the reader may be added to the writer too.
Two modules are enough for one to fail behind or before another in each loop and
in each walk; the proof of `AllOrNothing` has any number.  With two readers the
code's behaviour is undefined as soon as the first is exhausted
(`drivers/mmd.c:313`).

*ldap.*  Two accounts and four groups: one with the name of an account, two with the
prefix, and another one, so that an account may be in two without the prefix; two
clients with a call each, or one with two, beside vxgroupbld.  That is enough for
two usermods of one account to overlap, for two renames to cross, and for a
rename to be interrupted at each request.  A rename onto a name on which a third
call works needs one call more; the proof covers it.

*nss.*  Two handles are what it takes for one to move the other's stream.  The two
contents of the files differ in length, in the account that has a shadow line, and
in its password, so that a mixture shows; the second has a line that is too long at
the start of passwd, at the end of shadow, and as the only one of group.

*tools.*  Four runs allow: make, change, delete and make again.  Three names,
one of them root's, four directories of which one contains two others, a system
id and a user id.

*usersync.*  Two people compete for one name whose first variants are taken by
an account of another group and by one without a uuid, so fixup has to go on to
the third.  Three days with a timer of two contain: leaving, the
expiry, and a return in between.

*lpacct.*  A DPI of 3, at which pages are rendered as they are charged.  Pages of
two pixels and of one with a chunk of one pixel: a page longer than a chunk, reads
shorter than a pixel, and an end of the stream before, inside and behind each
page.

*genpw.*  Six characters leave room for both characteristics and several
syllables; below three the demanded characteristics fill or exceed the buffer.

Symmetry is used in `shadow_api` over the two processes and in `nss` over the two
handles, which are interchangeable there.  Neither run has a liveness property.

### Fairness

`FairSpec` of `ShadowDb` assumes weak fairness of each process's own `Progress`: a
program that has opened the database goes on to read, and ends by closing it.
That is what every program does: there is no path in the tools that opens a
database and waits for another process.  Waiting for the lock is part of
`Progress`; weak fairness is enough because the number of sessions is bounded, so
that a waiting process is not overtaken for ever and finally finds the lock free
continuously.  Nothing is assumed about how the kernel orders waiting processes,
nor that a program makes any request.  A crash ends a session, too.

`Spec` of `Lpacct` assumes that the filter and the backend are scheduled and that
the real backend ends, well or not; nothing about the other programs.

`GenpwSpec` assumes that the loop goes on and that independent draws with a
chance succeed in the end: a digit at the start of a try, and an upper case
letter whenever no digit is needed.  These are strong fairness, because a try that
fails takes the chance away until the next one begins.

## 4. What is proved

### The shadow driver

`ShadowDb_proofs` begins with lemmas about the operators of `ShadowFiles`: reading
and writing keep the types, writing a file over and truncating it yields exactly
the new lines (`RewrittenIsNew`), each operation yields well-formed lists.  Its
theorem `WrittenIsRead` says that a list with unique names that is written and
read back is what `Stored` says: each password, date and uuid comes back to the
user it belongs to, though the three files are put together by name, line by line,
by functions that know nothing of each other.  The theorems about `ShadowDb` are
for every set of processes, accounts and arguments and with crashes anywhere:

* `TypeCorrect`: `Spec => []TypeOK`.
* `FlushUnderLock`, `WritersExcluded`, `UpdatesNotLost`, `HolderReadsAll`:
  `SafeCallers => (Spec => []...)` for `FlushHoldsLock`, `WriterHoldsLock`,
  `NoLostUpdate` and `HolderInSync`.
* `UserFilesAgree`: `SafeCallers /\ InitAgree => (Spec => []FilesAgree)`.
* `Serializes`: `SafeCallers /\ WholeFlushes => (Spec => Serializable)`, the
  refinement of `SerialDb`.

`SafeCallers` says what programs must not do: call `vxdb_unlock()` before closing,
open with `VXDB_ADMIN` and `VXDB_WRLOCK` together, or call `vxdb_lock()` on a handle
opened with `VXDB_ADMIN`.  No program of the repository does any of these: all
writers pass `VXDB_WRLOCK`, `dbdump` passes `VXDB_ADMIN`, the others 0, and only the
mmd driver calls `vxdb_lock()` and `vxdb_unlock()`, on behalf of callers it does not
have.  `InitAgree` says that the files as they are found list the same users in
passwd and shadow; `WholeFlushes` that nobody is killed between the first write of
a flush and its last (a process killed there leaves a mixture, which is not a
state of `SerialDb`; kills at all other points are in the theorem).

None of these is inductive alone.  That a flush happens under the lock needs
that only handles with the write flag become dirty (`DirtyWritable`,
`FlushWritable`) and that such a handle has had the lock since before it read
(`HoldsLock`).  That in turn needs that the write flag never comes with
`VXDB_ADMIN` (`PureFlags`), also not on the way through `vxdb_lock()`
(`LockGoal`).  That no update is lost needs the history variable `base` to be the
files from the first read on (`BaseCurrent`), not only once there are changes; and
this is preserved by other processes' writes because there can be no second
holder.  The conjunction is `IInv`; `InitInv` and `InvStep` are the two halves of
the induction, with one step for each action.

`DInv` adds to `IInv` what relates the copy to the contents of the files, stage by
stage: while it is read, the files read so far are those on the disk (`PartlyRead`,
which needs `Waiting`: who waits has read nothing); when the handle is ready and
not dirty, writing it would store what is there (`InSync`); in a flush the files
before the current one are written (`PartlyWritten`), and the current one, after
the write and before the truncation, lacks only the truncation.  At the end of a
flush `PartlyWritten` and `WrittenIsRead` give `InSync` back.  `WriterPrivileged` is
there because a process without privileges skips shadow and vxshadow.

The refinement maps the files of `SerialDb` to `Files`: those on the disk, or, while
somebody is in a flush, what that flush will have written.  So the flush commits
with its first step, `FlushCommits`, and its other steps are invisible.  `View`
says that these definitions choose what they are meant to (there is one owner
and one flush at most).  `Quiet` is for processes that have no lock, `OwnerStep`
and its like for the one that has; `StepRefines` goes through the actions.

### The synchronization

`MdSync_proofs` proves all five properties of the run, whatever the list, the
names, the faults and the programs are: `OneAccountEach` (`UuidOnce`),
`OutsidersSafe` (`OutsidersUntouched`), `NotTooSoon` (`KeptSinceDone`),
`RunsComplete` (`SyncComplete`) and `NamesFree` (`NewNamesFree`).

A second account could come from somebody in `add_req` who has an account; so
`AddOK` says that the people still to be added have none in the group.  It holds
after `mdsync_compare()`, or newuser's `careful`, and stays because names and
accounts change only in the way of the run.  `ModOK` and `DelOK` say that what is
in the other lists are accounts of the group, whence outsiders stay out.  For the
timers, `TimersOf` says that no account's timer began before its owner was last
found listed by a completed run: a timer starts on the day of the comparison or
later, and a completed run has stopped the timers of those it found (`StopOK`:
what is still to be stopped is in `defer_stop`, or the run is not complete).  It
is stated for `db` and for `file`, as a crash goes back to what is stored.

That a run forgets nobody is `PartsOK`: every listed person has an account or is
still to be added, and every other account of the group is still on the list to
be deleted or to get a timer, is being deleted, or has a timer that had not
expired; and a part is left with its list empty, or the run is not complete.
`ListsOK` says that nobody is on a wrong list meanwhile, so that what one part does
never undoes another: who is deleted is not listed, and whose timer is stopped is.

That the names are free is a matter of counting.  `Held` says that the names in use
are those of the start and, for each person, at most one of an account of the
group; so while somebody is without a name, fewer names are taken than there are
accounts at the start and people (`TakenFew`), and one of the variants is left
(`FreeNameIs`) if a name has that many different ones, which is the assumption
(`NamesAssumption`).  `NamedOK` goes through the people one by one.
`Given` is a recursive function; the prover cannot use the induction theorems, so
the existence of the function and what it computes are proved by looking at the
first number of people for which they would fail (`LeastNat`).

### Automatic ids

`AutoId_proofs` proves `ChosenFree` (`ChosenIsFree`), `WhichIsChosen`
(`LowestOrNext`) and `AddedWithinLimits` (`GivenWithinLimits`), for any width of the
integers, any limits and any list of ids.  `HighestIs` and `ScanIs` say what the two
loops compute, in the same way as above; the rest is arithmetic: whether an
unsigned number is the same as an int.  The proof attempt showed where this
fails: with `UID_MAX` above INT_MAX the mmd driver can choose an id that is in use
(the ids 6, 9, 5 with INT_MAX 7: the 9 becomes negative, 5 is "higher", and
6 is given again), so the properties now speak of limits within INT_MAX for mmd,
while shadow, whose search never finds an id, is right for all.

### The mmd driver

`Mmd_proofs` proves all five properties of the run: `AllLoadedOrNone`
(`AllOrNothing`), `AllReadsAgree` (`ReadsAgree`) and `WritesVisible`
(`ChangesVisible`) for any number of modules with any lists; `TraversalIsComplete`
(`TraversalComplete`) and `AutoIdsAreNew` (`AutoIdIsNew`) for one read module or
none.  With two they are false, because the traverser that is freed at the end of
the first reader's list may end the traversal there, and with it the search for
the ids in use; `ReadsAgree` speaks of traversals that did return all.  In all of
them any module may fail at any point.

`ModulesOK` follows the loops turn by turn: which modules are loaded, open and on
record as such when a loop has come to `at`.  `modules_construct` has left the modules
before `at` loaded and the others out, but `modules_destruct` may find any mixture of the
two, as may `modules_close`; what makes them leave all modules alike is that the record
and the modules agree at every turn.  `ListsOK` says that no list has
a name twice: `ChangesVisible` needs it, since a lookup stops at the first entry of a
name, and a modification would otherwise change one that is not found.  `WalkOK`
says where a traverser can be in the course of a traversal.  For
`TraversalComplete` the invariant `Progress` says that what has been returned is
the first p entries of the writer followed by the first q of the reader, that
nothing of the reader was returned before the writer was at its end or skipped, and
that p is then at least the number of entries the writer had at the start, unless it
was skipped; callers only append, and change ids and names, behind and before the
traverser (`ListsStay`).  The combined list, the entries due and the counts are
recursive functions over the modules; that the functions exist, and how two of them
correspond, is proved by looking at the least number of modules for which it would
fail (`ConcatsExist`, `AlikeFrom`).

For `AutoIdIsNew` the lemmas of `AutoId_proofs` about the two loops of the search are
taken over by INSTANCE.  Every list that a pass may walk (`Walks`) begins with the
entries of the modules asked before the first one that fails, so an id that is free in
it is new to these, whatever the other pass has seen.  `IdsOK`, that the ids are
numbers, is the invariant it needs.  It holds only for ranges within INT_MAX, as above.

### The account tools

`AccountTools_proofs` proves all four properties of the run, for any accounts and
groups, directories, requests, days and faults.  Each action of `AccountTools` is a
program's whole work on its copy, so a lemma for each program first says what it
can leave (`UseraddAdds` ... `GroupdelDrops`); the inductions then see a list with a
record added, changed or removed.  `TypeOK` and `StageOK`, proved as `TypeCorrect`,
are below all others: `StageOK` says for each stage which tool is in it and how
copy and store are related.

* `FailureStoresNothing` (`AllOrNothing`): until a run is closed nothing is stored,
  and a code other than success goes with an unchanged copy (`OutcomeOK`).
* `UniqueStay` (`NamesAndIdsUnique`), if they are unique at first (`InitUnique`):
  `UniqueOK` says it of the copy, too.  The copy's exceptions, `-o` and vxusermod,
  are marked in the records.
* `HomesStay` (`HomesKept`), if they are there at first (`InitHoused`): `HousedOK` says
  it of the copy and of the store, without the one account that a vxuserdel under
  way has taken out and whose directory is going.
* `PrimaryGroupsStay` (`PrimaryKept`), a property of steps: `PrimaryOK` says that the
  groups a copy has lost are no account's, from the check on to the close.

The proof of the types showed an assumption that was missing: `rebuild_uuid()`
takes day 0 for an account without a uuid, so 0 has to be a day
(`ToolsAssumption`).

### The ldap driver

`GroupBld_proofs` proves `ValuesReplaced` (`OneValue`) and `GidsKept` (`GidKept`),
for any number of clients, with vxgroupbld among them, and of vxgroupbld
`RunCompletes` (`BuildComplete`) and `NoneAddedTwice` (`NoSecondVUG`), for any
accounts, groups and memberships that it finds.

`OneValue` rests on `SeenCurrent`: what a usermod has read of an account still says
which attributes have values, unless the account is in `raced`.  Other clients'
changes put the account there; their userdel and useradd do so too, since the
account is in the middle of a usermod then.  A rename takes the mark along.

`GidKept` is a property of steps: every step but `groupmov_del` leaves each gid with
its group or gives it up on purpose.  `groupmov_del` deletes a group whose gid the
call has put into a new group before (`GidHeld`): the new group is still there
unless somebody deleted or changed it, which gives the gid up, or is itself
renaming, and two renames at once are `crossed` (`OneEach` and `CrossingSeen` say
that as long as nothing is crossed at most one client is between the two halves
of a rename).

`BuildComplete` and `NoSecondVUG` are about an undisturbed run, as a client may undo
what vxgroupbld has done as soon as it is done.  For the first, `CompleteOK` says
that an account of which no copy is left in `todo` or in hand is done, which
needs that an account that is found in its group on the list is in it (`added`).
It survives the later removals because these are from groups with the account's
own name only.  For the second, `SecondOK` says that while an account is moved
and has not been found in its group, a group with the prefix is still to come
on the list or it is in none (`MoveOK`).  That the list names one of them to begin
with is the lemma `GroupsRead` about `sgmapget`: of several groups it names two
different ones, so that one with the prefix is among them unless the account is
in two without.  Once the removal has gone through there is none left to add a
second one to, since only the group of the account's own name is removed, and an
account that was not in it at first is there only as its only group (`OwnOK`).

The proof attempts changed both properties, which had held in an instance with
one group without the prefix.  An account in two of these is given a second group
with the prefix, since `vxldap_sgmapget()` returns the second entry again instead
of the third (`drivers/ldap.c:1430`); now the instance has such a group, and the
property the exception.  A Vitalnix group of an account's own name is an
exception of `BuildComplete`: a removal from another group takes the account out
of it.  And a run that fails before it reads the accounts is not a run that
nobody disturbed.

### The handles and the nss drivers

`NssDb_proofs` proves all four properties of the run, for any handles, drivers,
files and failures of loading: `HandlesInStep` (`TypeOK`), `LibrariesBalanced`
(`NoLeak`), `AnswersAreWhole` (`AnswerWhole`), `TraversalsRight` (`WalkRight`).

`WalkRight` speaks of what a traversal has returned and of its end.  It becomes
inductive with `WalkOK`: an undisturbed traversal is at the position after what it
has returned, in the list that was due when it began.  For nss this is kept
because the lists of a handle change only while it is being opened, when it has
no traverser; for nss1 because every call that moves a stream puts the other
traversals of it into `disturbed` (`OthersKept`), and because a stream whose
position is known to be 0 or more is open, so that the next call does not begin
a new one.  `HandleStep` collects what a call of one handle has to leave of the
others, so that each action is looked at for its own handle only.

For `AnswerWhole` the invariant says where the entries of the lists come from (`UserOK`,
`GroupOK`): a name and an id from one line of passwd, and a password that shadow has for
that name, which is not there between the reading of the two (`ListOK`).  A password
that no shadow line gave is nothing either because there is no such line or because
another entry has the same name and got it; that needs the first of several lines
(`FirstExists`), the last of several shadow lines (`GreatestNat`), and what is left of a
file with a long line (`ReadableIs`).  Then `CopyIs` and `SystemCopyIs` say what the copies
leave of the struct they find: nothing, or the password alone.

`NoLeak` counts: loading adds one handle to those of a driver and unloading removes
one, for which the set of handles has to be finite.

### The ink

`Lpacct_proofs` first proves three facts about the arithmetic: `GrayFits`, that the
32-bit sums of `pxcost_gray()` do not overflow for any chunk that fits in the
buffer; `GrayBelowFull`, that the cost of a chunk is never negative;
`GrayLooking`, that the integer distance to gray decides as the comment's floating
point variant.  It then proves all three properties of the run, for any documents,
any buffer of whole pixels, any faults and any number of attempts: `RowsRight`
(`CostRight`), `EntryIsMade` (`EntryMade`) and `ConfirmedArePrinted`
(`ConfirmedPrinted`).

`CostRight` compares the area that arrives in printlog, after a whole job in
chunks and `drop2bl()`, with what the comments say of a single pixel (for gray,
with the code's weights) at the resolution used.  It speaks of a DPI of 2 or more
(section 5).  `ChunkCost` says that the analyzers for CMYK, CMYPK and CMY, which
invert the bytes and look for the lowest one, come to the costs of the pixels;
`PageCostJoined` that the costs of two chunks add up to that of the two together,
if the first has whole pixels.  The gray analyzer weighs the sums of a chunk, so
`GrayChunk` gives it less than one droplet more than the exact amount for each
chunk, and `GrayCostJoined` adds up the exact amounts.  Sums are recursive
functions over the pixels; `SumSteps`, `SumSplit`, `SumAffine` and the other
lemmas about them look at the least number of pixels for which they would fail.

The invariant `IInv` follows the filter: the chunk at hand comes after k full ones
and ends with them or with the page (`ChunkFollows`), `page_cost` is right for the
bytes before it, `all_cost` for the `npages` pages before (`FilterInv`), and a row of
the present attempt is there only after `acct_mysql`, with the filter's totals
(`RowsInv`), when the number of pages is that of Ghostscript's whole output.  One
lemma for each action, `ReadStep`, `AnalyzerStep` and so on, shows that it stays.  The
other two properties need little: which entry the filter has made by when
(`DoneInv`), and that lpacct_confirm is at work only after a successful print
(`ConfirmInv`).

The proof showed an error in the model: two cases of `PixelCost` had overlapping
guards for CMYK, of which TLC takes the first and the prover none.

The assumptions are the named ASSUMEs on the constants in the modules (the initial
accounts have no second account of one person, one value of each attribute, and
so on), which TLC evaluates for every run.

### The passwords

`WishesMet` and `PasswordsReadable` state the two safety properties of `Genpw` for
any syllable tables, buffers and wishes, and for any number of tries.  They are
in `MdSync_proofs` because `mdsync_add()` is the caller that stores the passwords
(`libvxmdsync/proc.c:234`).

The invariant `GenpwInv` describes a try that is under way, and it must do so
without the tries before it: that is what the reset of the flags in `redo` is for.

* `DigitOK`, `CapitalOK`: the flags are still those of the call and the password
  has no digit (no capital), or they are cleared and it has exactly one.  The
  properties speak of the end only, where the loop has been left with no demand
  unmet.
* `PlaceOK`: the pieces lie side by side in the buffer, and only `size` characters
  of it are free, at the front with the methods that pronounce and at the end with
  the random one.  So a piece that fits leaves the rest full.  `FilledIs` gets
  from the places to the sum that `Filled` computes: a first piece where the two
  part would have a predecessor where they part already (`LeastNat`).
* `OrderOK`: `prev` is the syllable nearest to the front, as they are put in from
  the back, so comparing the next draw with it is enough for `Varied`.  `VowelAfterN` is
  inductive with it, since an N is put in only if the character behind it is a
  vowel; a digit is none.

`TryOK` says that an empty buffer has all this, which serves the call and every
`redo`; one lemma follows for each kind of piece, and `GenpwStep` has one step per
action.

## 5. Where the code differs from what is said of it

The run `ldap_move` shows one difference, listed under "findings":
`vxldap_sgmapdel()` makes the DN of the group from the user's name.

The models have the code as it is.  These are further places in which it differs
from the documentation or from what was surely meant; each is in the model, or
stated as an exception in a property, or named here because it is left out:

* *shadow*: `vxdb_unlock()` gives the lock away and keeps the unwritten changes
  (`drivers/shadow/shadow.c:146`).  Killed between writing and truncating
  vxshadow, a process leaves a document that does not parse, and all uuids are
  lost to the next reader (`dbops.c:169`).  Write errors are not looked at
  (`dbops.c:93`).  `groupadd` can never succeed (`shadow.c:329`).
* *automatic ids*: with a 64-bit `long` the mmd driver takes `-ENOSPC` for an id
  when the range is full (`drivers/mmd.c:192`), and it can choose an id in use
  when `UID_MAX` is above INT_MAX (`drivers/mmd.c:493`).
* *mmd*: a module that gives no traverser is left out of a traversal without an error
  (`drivers/mmd.c:278`, `:306`), and one that cannot count is not counted (`:121`): with
  the ldap driver, whose search may fail (`drivers/ldap.c:346`, `:1035`), a traversal
  that seems complete is not.  The search for an id takes a failed walk for the end of
  the list (`mmd.c:491`), so an id in use may be given again.  Two read modules, see
  above; an empty WR_MODULE, which the comment in
  `etc/db_mmd.conf:10` allows, makes loading fail; a name in two modules comes
  twice in a traversal, with which `mdsync_compare()` calls abort()
  (`libvxmdsync/proc.c:69`); the same files behind two modules share one POSIX
  lock, which the first close drops.
* *libvxmdsync*: classes are not updated by a run that has no timer to change
  (`clutils/usersync.c:204`).  A run that stopped between adding an account and
  making its home directory is not completed by repeating it.  After a read
  error `mdsync_read_file()` tries again for ever (`read_file.c:41`).  When the
  variants of a name have run out, `format_name()` ends the process in the middle
  of a run (`fixup.c:73`).  `PSWD_LEN=-1` is to disable new accounts
  (`etc/libvxmdsync.conf:29`), but `new_pw_length >= sizeof(plain_pw)` compares it
  as unsigned (`proc.c:206`) and makes it 63, so they get a password of 62 or 63
  characters; `PSWD_LEN=10` gives 9 characters with the methods that pronounce,
  and `PSWD_LEN=1` leaves the buffer as it was, `vxutil_genpw()` returning at once.
* *account tools*: the owner of a new home directory is taken from the request,
  where it may still be `VXDB_AUTOUID` (`clutils/useradd.c:361`); vxusermod `-l`
  and `-u` do not look whether the name or the uid is in use; vxgroupdel walks
  with a record that is not initialized (`groupdel.c:154`).
* *ldap*: `VXDB_AUTOUID` and `VXDB_AUTOGID` are written as numbers
  (`drivers/ldap.c:416`); `vxldap_sgmapget2()` repeats the second entry (`:1430`);
  userdel leaves memberships and a rename leaves the old uid value and the old DN
  in groups; a rename that fails leaves the modification done.
* *nss1*: the traverser is the process's own stream, although
  `doc/vitalnix_devel.lyx:6599` says that it is stored in the state; counting the
  groups ends the traversal of users; a lookup into a reused struct keeps the password
  of the account before (`drivers/nss1.c:183`).
* *nss*: an entry of more than 1024 bytes ends the list without an error
  (`drivers/nss.c:243`): everybody behind it is missing.
* *lpacct*: the weights of red, green and blue in gray are 78, 151 and 27
  (`lpacct/drop.c:313`), where the comment has 76 for red (`:242`); the comment's add up
  to 254, with which white would cost ink.  With a DPI of 1 the page is rendered at 2
  (`lpacct.c:207`) and charged at 1, four times its area; with 0 `drop2bl()` divides by
  zero (`drop.c:36`).  A confirmation that comes before the row leaves it unconfirmed, and
  rows of earlier, failed attempts are confirmed with the last one; a filter whose
  Ghostscript has ended early leaves the copy of the document behind.
* *passwords*: a buffer with less room than demanded characteristics recurses
  without end; the random method upper-cases the character that is written over
  next, and writes one character more than its buffer is long with the zero.

## 6. What is only model-checked, and what is left out

Only model-checked: liveness (`SessionEnds`, `JobEnds`, `CallReturns`), which is
out of the prover's reach.  Every other property of a run that holds is stated by
a theorem.

Abstractions of the models:

* Of the fields of an account those are kept that decide control or live in
  different files.  Field formats, NIS and comment lines, and the reserved fields
  of passwd lines are left out.
* A vxshadow document that does not parse reads as an empty one.  The files of an
  instance fit into one stdio buffer, so that a file is written in one step and
  truncated in the next.  A process without privileges can open only for reading
  and sees neither shadow nor vxshadow.  Full disks and memory are not modelled;
  the code has no path for the former.
* The modules of Mmd are distinct databases, and nobody deletes while a traversal
  is under way, as in all programs.
* MdSync has neither the commands before and after an account (their flush is
  there), nor passwords, nor the log.  A run holds the write lock from its start
  to its end, so there is one run at a time.  Formatting a name with a number is
  a constant function.
* AccountTools has neither the commands before and after a change nor cron tables
  and mail.  One run follows the other, which is what the write lock and
  `Serializable` give them.
* LdapDb has no Samba ids; of the optional attributes three stand for all.
* NssDb leaves out errors of getpwnam() and its like, which go to the caller as
  they are.  Lpacct leaves out lpacct_analyze, whose loop is the filter's, and the
  discovery of backends.  It has the area of the inks without the constant factor to
  sheets of paper, and without the sum over the inks and the rounding of floating point
  numbers in a row of printlog.  Genpw has choices for probabilities.

Not modelled, with the reason; the same is in `PROJECT.json`:

* *mysql driver*: unfinished.  `queryf()` moves its format pointer by the wrong
  length, and the bodies of usermod, userdel, groupmod and groupdel are commented
  out; what it does to a database is undefined.
* *reports, ckuuid, login helpers, CGI programs*: they read and print.
* *libvxeds, libvxmdfmt, libvxutil, libvxcli, libvxcgi*: parsing, typesetting,
  strings, ciphers and prompts without state that lasts.  What MdSync needs of
  them (the list, proposed names, the day) are its constants.
* *libvxcore*: a map behind a mutex, which two error paths leave locked
  (`libvxcore/loader.c:58`).  Modules register themselves in constructors, before
  `main()` and one after the other.
* *steelmill's other windows*: the steps of newuser, vxusermod and vxfixuuid
  behind forms.

## 7. What could come next

1. The composition of Mmd with ShadowDb, where the same files behind two modules
   share one POSIX lock, and of AccountTools with LdapDb, where the tools' checks
   are not protected by a lock.
2. The retries of `mdsync_read_file()` and the parsing of lists, which MdSync takes
   as given.
