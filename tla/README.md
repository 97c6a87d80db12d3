# TLA+ models of the Diplomski kernel core

This directory holds TLA+ models of the memory-management and scheduling core
of the kernel under `src/kernel`, with the TLC configurations that check them.
`PROJECT.json` lists every component, every run, the mutants that show each
checked property can fail, and the source lines each definition models. It
also lists the findings and the hazards.

## 1. The system

### Components and their state

| Component | Source | State |
|---|---|---|
| Buddy allocator | `arch/x86_64/memory/buddy_allocator.c` | `buddy_arenas[32]` (base, length, max order, `free_list[0..20]`, singly linked through the free frames), `buddy_arena_counter` |
| Heap front end | `arch/x86_64/memory/pmm.c` | `kmalloc_lock`, `kfree_lock`; an `alloc_header` (magic, size, order) in front of every buddy-backed allocation, and an end magic after it |
| Slab allocator | `arch/x86_64/memory/slab_allocator.c` | size classes, each with partial/full/free slab lists; per slab a free-object list, a free count and a magic |
| VMM | `arch/x86_64/memory/vmm.c` | 4-level page tables per address space; the kernel half is shared |
| Memory descriptors | `kernel/memmgr/memmgr.c` | per user task: address space, sorted region list, `brk`, counters |
| Tasks | `arch/x86_64/tasks/tasks.c` | task objects; `pid_counter`; the global task list; children and zombie lists (declared, never filled: no code sets a parent) |
| Scheduler | `arch/x86_64/scheduler/scheduler.c` | per core: `cpu_runqueue` (circular intrusive list), `runqueue_lock`, `current_task` |
| Task manager | `arch/x86_64/tasks/task_manager.c` | per core: `task_counter`, guarded by one `task_counter_lock` |
| SMP and timer | `smp/smp.c`, `interrupt_controllers/apic.c`, `timer/timer.c` | `cpu_id_ctr`, `total_cpus`, per-core LAPIC timer (masked until `boot_idle_task` runs) |
| Locks | `include/kernel/spinlock.h`, `atomic.h` | spinlock, IRQ-save spinlock, rwlock, ticket lock |
| VFS | `kernel/filesystems/vfs.c`, `dentry_cache.c` | dentries (name, parent, inode, refcount, hash link); a 256-bucket hash of singly linked chains; the registered filesystem list |

The console, tty, framebuffer, GDT/IDT and the Limine request tables are
outside the core. Section 6 says why they are not modelled.

### Operations and how the parts interact

- **Boot.** `buddy_allocator_init` builds arenas from the memory map. It skips
  slot 0 and bumps the counter twice, so slot 1 is also unused. Each arena is
  then filled by `populate_buddy_blocks`.
- **Allocation.** `kmalloc` sends sizes up to 2 KiB to the slab allocator and
  larger ones to `buddy_alloc_pages`. Both paths run under `kmalloc_lock`.
  `pmm_alloc_page` also uses `kmalloc_lock`.
- **Freeing.** `kfree` and `pmm_free_page` run the slab and buddy free code
  under `kfree_lock`, which is a different lock.
- **Tasks.** `create_kernel_task` allocates a task and its stack with `kmalloc`.
  `create_and_schedule_kernel_task` places the task with `find_least_busy_cpu`
  and appends it with `sched_task` to the queue of the chosen core.
- **SMP start-up.** `smp_init` creates four boot tasks, then hands
  `ap_entry_point` to every AP. Each core takes the next core id and calls
  `schedule()`. The BSP calls `schedule()` at the end of `smp_init`.
- **Timer.** Every timer interrupt calls `schedule()`, which switches to the
  successor of the current task in the core's queue.
- **Path lookup.** `vfs_open` calls `path_walk`, which moves a reference
  from dentry to dentry along the path. A name missing from the dentry cache
  is asked of the filesystem's `i_ops->lookup` and added to the cache. No
  filesystem and no caller exist yet under `src/`.
- **Exit.** `task_exit` marks the task ZOMBIE, unlinks it, decrements the
  counter and frees its memory descriptor. It would hand itself to a
  sleeping parent and orphan its children, but no task has a parent or
  children. It then calls `schedule()`.

### Hard behaviours

- Cores interleave on shared structures: the buddy lists under two different
  locks, the task counters (one unlocked decrement), and the run queues.
- Split and merge sequences on LIFO free lists, including buddies across
  adjacent arenas and the order cap.
- Intrusive list corner cases: a `list_del`'d node points to itself, which
  `schedule()` follows.
- The boot order: tasks are created before the APs start, and the APs start
  while the BSP is still in its loop.
- Partial failures: allocation failure inside task and descriptor creation,
  map failure in heap growth, and map_range rollback.
- Counters at their limits: PID wrap, `MAX_CORES` against `total_cpus`, and
  `MAX_SUPPORTED_ORDER` against the `>=` test in kmalloc.

### Properties per component

| Component | Properties |
|---|---|
| Buddy | no frame in two blocks; every arena frame free or held; lists aligned, inside their arena and merged; alloc then free restores the lists; the allocator implements the abstract one, refusing only when no aligned free run exists (`NoDoubleAllocation`, `NoLeak`, `FreeListsWellFormed`, `RoundTrip`, `AllocatorRefinement`) |
| Heap locks | no frame both free and held, or held by two cores (`NoDoubleAllocation` of `HeapLocks`) |
| Heap large path | a live allocation's header magic is intact (`HeaderIntact`); every frame is free, live or leaked exactly once, whatever double frees kernel code makes (`HeapAccounting`); kmalloc/kfree implement the abstract page allocator for the orders below `MAX_SUPPORTED_ORDER` (`AllocatorRefinement` of `Heap`) |
| Scheduler | every started core runs a task (`EveryCoreRuns`); an exited task never runs again (`NoZombieResumed`); every runnable task runs infinitely often (`EveryTaskRuns`) |
| Slab | a slab is on exactly the list its free count says and the count is its free-list length (`SlabListsConsistent`); every object is free once, held, or lost, and the counters agree (`ObjectAccounting`); kfree of a live object is never refused (`LiveFreeAccepted`); the cache implements the abstract object cache, creating slabs only on demand and failing only when every page pair is a full slab (`CacheRefinement`) |
| VMM | the tables of the live address space form a tree and every table frame is free, held elsewhere or in that tree exactly once (`TablesAccounted`); each user page translates to what the last successful map asked for (`MappingsAsRequested`); `total_pages` counts the mapped pages (`TotalPagesCount`); the kernel half is shared and never freed (`KernelHalfIntact`) |
| VFS | a dentry's refcount is its allocation reference plus one per open file on it (`DentryRefsMatchHolders`) |
| Tasks | none checked (see Tasks notes) |

## 2. Modules

| Module | Models | State | Actions |
|---|---|---|---|
| `Buddy` | buddy_allocator.c | `free_list[a][k]` as sequences, head first; `held` blocks of the clients; history variable `lastAlloc` | `buddy_alloc_pages(o)`, `buddy_free_pages(b)` |
| `AbstractAllocator` | what the page allocator promises (spec sections 2 and 5) | `free` frames as a set, `given` blocks, `refused` (order of the last refused request) | `Alloc(o)`, `Refuse(o)`, `Release(b)` |
| `HeapLocks` | pmm.c `pmm_alloc_page`/`pmm_free_page` over one order-0 list | `head`, per-frame `nxt` link, the two locks, per-core `pc`, `blk`, `owned` | each C statement that reads or writes the list head is one step |
| `AbstractObjectCache` | what a slab cache promises (spec sections 3 and 7) | `inUse` page pairs, `avail`, `given` and `lost` objects, `failed` (the last allocation returned NULL) | `Alloc`, `Grow`, `Fail`, `Release(o)`, `GiveBack` |
| `Heap` | pmm.c `kmalloc`/`kfree` large path over the buddy (instantiates `Buddy` for its operators) | `free_list`; the first word of every frame `word` (ALLOC, FREED, LINK, CLOBBERED); the header fields `hdr` at every frame; `marks`, the byte addresses of intact end magics; the clients' `live`, `freed` and `refused` pointers; history `lastReq` | `kmalloc(size)`, `kfree(p)` |
| `Slab` | slab_allocator.c, one cache, reached through kmalloc's small path (`slab_alloc_size`), and kfree's slab path (`slab_find_containing`) | `cache` (partial/full/empty lists and counters), per-slab `free_list` and `free_count`, `live` slabs, each object's first word `magic`; the clients' `held`, `released` and `refused` objects; history `lastFailed` | `kmalloc(size)` (size-class choice, then `slab_alloc` with `slab_create`), `kfree(o)`, `slab_cache_shrink`, and the client's `write_object(o)` |
| `Vmm` | vmm.c: page tables of one user address space | `pt` (the contents of every table frame), `pool` (table frames free in pmm), `pml4`, `total` (`total_pages`), history `mapped`, `others` (pool frames held outside the tables) | `vmm_create_address_space`, `vmm_map_range(vs, n, p)`, `vmm_map_page(v, p)`, `vmm_unmap_range(vs, n)` (also `vmm_unmap_page` for n = 1), `vmm_destroy_address_space`, and the rest of the kernel's `other_alloc`, `other_free(f)` |
| `MemMgr` | memmgr.c over `Vmm` (EXTENDS it) | `brk`, heap `chunks` free in the buddy, `stack` frames taken | `mm_alloc`, `mm_free`, `mm_setup_executable`, `mm_expand_heap(fault)`, `mm_expand_stack(fault)`, and every `Vmm` step |
| `Vfs` | dentry_cache.c; vfs.c dentries, `path_walk`, `vfs_open`/`vfs_close`, filesystem list | `alive`, per dentry `d_name`, `d_parent`, `d_inode`, `d_refcount`, `d_hash_next`; `hash_table`; `i_refcount`; open `file`s; `registered_fs`, `fs_next` | `vfs_open(wd, path)`, `vfs_close(f)`, `free_dentry(d)`, `register_filesystem(fs)` |
| `Scheduler` | scheduler.c, task_manager.c, tasks.c creation, smp.c, apic.c timer handler | `runqueue`, `current`, `task_counter`, `cpu_id`, `state`, `online`, `cpu_id_ctr`, `all_tasks` | `create_and_schedule_kernel_task(t)`, `CoreStart`, `TimerTick(c)`, `task_exit(c)` |
| `Tasks` | tasks.c user tasks, PIDs, `task_destroy`; the descriptor half of task_manager.c `task_exit` | `live` objects, per task `pid`, `state`, `md`; `all_tasks`, `pid_counter` | `create_user_task(t)`, `task_exit(t)`, `TaskDestroy(t)` |

Notes on how the modules correspond to the code:

- **`Buddy`**
  - Addresses are page-frame numbers. A block of order k has 2^k frames, and
    its buddy is `addr ^^ 2^k`.
  - `ArenasFrom` and `Populate` are recursive translations of the init loops.
  - The merge loop is the recursive `Coalesce`.
  - `Buddy` implements `AbstractAllocator` under the refinement mapping at
    the end of the module: `free` is the union of the frames of the free
    blocks, `given` is `held`, and `refused` is the order of the last
    request `buddy_alloc_pages` turned down (from the history variable
    `lastAlloc`). So a refusal is only allowed when no aligned free run of
    that order exists in any arena allowing it, and a free returns exactly
    the block's frames.
- **`HeapLocks`**
  - The list is kept as it is in memory: a head pointer and a next pointer
    stored in each free frame. This is what lets a torn update be seen.
- **`Heap`**
  - `struct free_block` and `struct alloc_header` overlay each other: the
    buddy's `current_order` byte lands on the low byte of the header magic.
    `word` keeps, per frame, only what kfree's checks tell apart.
  - A `free_block` is 24 bytes: `current_order`, then `phys_addr` over the
    header's size and order fields, then `next`. So a linked frame reads as
    a header of size `phys_addr` and order 0 (`LinkHeader`).
  - The end magic is kept by byte address in `marks`, because it can land
    anywhere: inside a frame, across a frame boundary, or on a frame's first
    word. A store of a header, a `free_block`, an end magic or FREED_PATTERN
    removes every end magic whose 8 bytes it touches (`Spare`). The model
    assumes no end magic lands on a header's size or order field. No size
    of the instances does that.
  - `kmalloc` includes the buddy split (each new free block gets its
    `free_block`), the header stamp and the end magic. An end magic that
    covers a frame's first word exactly writes ALLOC_MAGIC there. This
    happens inside the block when 16 + size is a multiple of 4096. One that
    covers it in part clobbers it (`WriteEndMagic`).
  - `kfree` checks both magics. It reads the end magic at
    `ptr + header->size`. The read finds ALLOC_MAGIC if an intact end magic
    or a header magic starts there. Memory outside the arena that nothing
    wrote may hold anything (`EndMagicRead`). `kfree` then stamps
    FREED_PATTERN and merges. The merged block's `free_block` is written
    where it is linked.
  - `FreeAfterReuse` decides whether kernel code may free a pointer again
    after its memory was handed out inside a later block. When it is FALSE,
    a kmalloc takes the frames of its block out of `freed`.
  - `Heap` implements `AbstractAllocator` too (`Abstract` at the end of the
    module). `free` is the union of the frames of the listed blocks, `given`
    the blocks of live pointers and of pointers whose kfree was refused
    (leaked, so still given), and `refused` the history variable `lastReq`,
    the order the last kmalloc turned down. The pools allow the orders below
    `MAX_SUPPORTED_ORDER`, the limit kmalloc's own test enforces.
  - The environment may kfree a pointer again, unless a live allocation
    starts there (that is use after free, which no sentinel can catch).
- **`Slab`**
  - An object is a pair of a slab (a page pair from the buddy) and an index.
    Only its first word is kept, as "POISON" (the value both
    `OBJECT_POISON` and `FREED_PATTERN` have) or "DATA".
  - `slab_alloc` includes `slab_create` when no slab has a free object, and
    the re-linking through `slab_remove_from_list`.
  - `kmalloc(size)` takes a size from `Requests`, keeps kmalloc's
    `size <= SLAB_THRESHOLD` test, and chooses the class with
    `SlabAllocSize`, the smallest entry of `slab_sizes[]` (`SlabSizes`) that
    holds it; only sizes that land on the modelled cache continue to
    `slab_alloc`.
  - `kfree(o)` is the slab branch of `kfree`, including its double-free check.
    The slab is found with `SlabFindContaining`, the offset test of
    `slab_find_containing` over the live slabs.
    The client may call it again on an object it already freed.
  - `Slab` implements `AbstractObjectCache` (`AbstractCache` at the end of
    the module). `inUse` is `live`, `avail` the objects on the free lists of
    live slabs, `given` is `held`, and `lost` is `refused`. `failed` is the
    history variable `lastFailed`: whether the last kmalloc of the cache
    returned NULL.
- **`Vmm`**
  - Four levels are kept, with `Fan` entries per table instead of 512, so a
    virtual page number has one index per level (`Index`). The lower half of
    the PML4 is the user half.
  - A table is a frame number and an entry is `NotPresent` or the frame it
    points to. The flags are left out: every entry the code writes is
    PRESENT, and no property reads the others.
  - `Walk` is `vmm_walk_page_table` as a recursion over the levels. With
    create it allocates missing tables, and an allocation failure returns
    NULL and keeps the tables made so far. `MapPage` and `UnmapPage` are the
    `_no_flush` helpers, `MapLoop` is the loop of `vmm_map_range` with its
    rollback, and `Lookup` is `vmm_virt_to_phys`.
  - Each call is one step, since the tables of one address space have one
    user at a time. The TLB flushes are left out: no property observes the
    hardware TLB.
  - Table frames come from `pmm_alloc_page`, shared with the rest of the
    kernel. `other_alloc` and `other_free` are those other users, so that
    the pool can be empty when a walk or a create needs a frame.
- **`MemMgr`**
  - One descriptor at a time, which exists while its address space does.
  - Pages are counted in page units: `HeapStart` is the page of
    `heap_start` and `GrowPages` is `HEAP_GROW_SIZE` in pages.
  - The region list is left out, because no state-changing path reads it
    (see section 6).
  - `mm_expand_heap` moves `brk` by `HEAP_GROW_SIZE` even when its
    `vmm_map_range` failed (`GrowBrk`). An invariant "every page from the
    heap start to `brk` is mapped" fails in 5 states: another kernel user
    holds a table frame, `mm_alloc`, `mm_setup_executable`, then a heap
    fault whose walk runs out of frames for the PD and PT. The chunk is
    given back but `brk` moves to page 4, and a later fault below `brk`
    returns 0 without mapping. No run keeps this invariant, because the
    fault handler that would reach `mm_expand_heap` is commented out; it is
    listed as a hazard.
  - `mm_free` leaves `chunks` and `stack` as they are, because
    `vmm_destroy_address_space` frees only page tables. An invariant "every
    heap chunk is free in the buddy or mapped in the live address space"
    fails in 3 steps: `mm_alloc`, a heap fault that maps chunk 40, then
    `mm_free`. Chunk 40 is then neither free nor mapped. This is listed as
    the hazard at memmgr.c:84, for the same reason as above.
- **`Vfs`**
  - The hash table is kept as pointers: a head per bucket and a
    `d_hash_next` per dentry. A dentry added twice then links to itself, and
    a dentry unlinked by mistake stays reachable. A chain walk longer than
    the number of dentry objects is a cycle: the call never returns
    (`Hang`), and the operation that made it never completes.
  - The Jenkins hash is abstracted to the bucket it yields (`BucketOf`).
    `dcache_lookup` and `dcache_remove` compare names only, as the code does.
  - `i_ops->lookup` is the environment: it answers from a fixed inode tree
    (`FsChild`) and builds the dentry with `alloc_dentry` and
    `instantiate_dentry`, the VFS's only constructor.
  - The caller passes a working directory: `root_dentry` is never set, so a
    walk that starts from it dereferences NULL. A leading `/` is skipped and
    the walk still starts at the working directory.
  - `free_dentry` is called by a caller that holds no file on the dentry and
    has freed its children; a refcount other than 0 is only logged.
- **`Scheduler`**
  - Each operation takes its run-queue lock with interrupts off, so it is one
    step. `task_exit` includes its final `schedule()`.
  - `NextTask` follows the C pointer walk: the successor of current, wrapping
    to the head. A task no longer in its queue has itself as its successor,
    which is the self-linked node.
  - `SchedTask` and `SchedRemoveTask` are `sched_task` and
    `sched_remove_task` over `list_add_tail` and `list_del`.
    `CreateKernelTask` is `create_task` plus `create_kernel_task`: the task
    becomes RUNNING and is appended to `all_tasks`. Both allocations are
    taken to succeed, because `create_and_schedule_kernel_task` dereferences
    a NULL result.
  - `BootNext` is the kernel as it runs, with no `task_exit`; `Next` adds
    it, for the `sched_zombie` run.
- **`Tasks`**
  - A task object is a model value. A freed object keeps what it held, and
    `create_user_task` may hand it out again, as kmalloc may.
  - `create_user_task` takes a PID before the descriptor's kmalloc, so the
    PID is spent when that kmalloc fails and the task is freed. A failed
    `create_task` changes nothing.
  - The process hierarchy is not modelled, because none of its code can
    run. `create_task` sets `task->parent` to NULL, and nothing sets it to
    anything else. `fork` and `waitpid` are declared in tasks.h but written
    nowhere. `task_exit`'s call of `wake_up_task` is commented out. So
    `task_exit` never takes its `task_add_zombie` branch. Its
    `task_orphan_children` branch finds an empty list.
  - No run checks `Tasks`. Its reachable hazard, the PID wrap, needs
    `PID_MAX` creations, and the run budget went to the heap's stale free.

Modules of later sittings, in order:

1. **`Slab`** (done for one cache, with kmalloc's size-class choice and
   kfree's slab lookup): still to do is composition with `Buddy`, since slabs
   are order-1 buddy blocks.
2. **`AbstractAllocator`** (done): `Buddy` is checked against it in
   `buddy_safety` and `Heap` in `heap_safety`.
3. **`Tasks`** (task objects and PIDs): still to do are composing it with
   `Scheduler` through `task_exit`, and a run of unique PIDs among live
   tasks with a small `PID_MAX`. The hierarchy waits for `fork` and
   `waitpid` to be written.
4. **`Vmm`** and **`MemMgr`** (done): still to do is the region list
   (`mm_add_region`, `mm_find_region` with its inclusive end, `mm_check_access`),
   and more than one address space sharing the kernel half.
5. **Task counters**: `task_exit`'s unlocked counter decrement against
   `find_least_busy_cpu`, split into load and store. It is a hazard in
   `PROJECT.json` but not yet a run.
6. **`Vfs`** (done for dentries, the cache and the open path): the chain
   invariants (no cycle, a lookup returns a child of its parent) are ready
   to check once the double `dcache_add` and the name-only compare are
   fixed. The inode lists are still to do.

## 3. Runs

| Run | Expect | What it shows |
|---|---|---|
| `buddy_safety` (`MCBuddy.cfg`) | pass | see below |
| `heap_lock_race` (`MCHeapLocks.cfg`) | violation | see below |
| `heap_safety` (`MCHeap.cfg`) | pass | see below |
| `heap_end_magic_overrun` (`MCHeapOverrun.cfg`) | violation | see below |
| `heap_stale_free_after_reuse` (`MCHeapStale.cfg`) | violation | see below |
| `slab_safety` (`MCSlab.cfg`) | pass | see below |
| `slab_live_free_refused` (`MCSlabRefused.cfg`) | violation | see below |
| `sched_round_robin` (`MCSchedulerLive.cfg`) | pass | see below |
| `sched_zombie` (`MCSchedulerZombie.cfg`) | violation | see below |
| `sched_offline_cores` (`MCSchedulerOffline.cfg`) | violation | see below |
| `vmm_memmgr_safety` (`MCMemMgr.cfg`) | pass | see below |
| `vfs_open_refcount_leak` (`MCVfs.cfg`) | violation | see below |

**`buddy_safety`** (pass): 575 distinct states. It checks all interleavings
over two adjacent arenas, one with an unaligned base, plus a skipped slot-0
entry. Requests are of orders 0 to 3, and order 3 is above the cap. Under
these, the buddy lists:

- stay disjoint,
- stay complete,
- stay merged,
- and are restored by an immediate free.

The same run checks `AllocatorRefinement`: every step of `Buddy` is a step
of `AbstractAllocator` under the mapping, so no request is refused while
the arenas hold an aligned free run of its order.

**`heap_lock_race`** (violation): core 1 frees f1 and links it in front of f2.
Meanwhile core 2 allocates f2. Core 1 then publishes f1, and f2 is free while
core 2 holds it.

**`heap_safety`** (pass): 24566 distinct states, about 1.5 minutes. One
4-frame arena, with request sizes 4072, 4076, 4080 and 9000. These are
orders 0, 0, 1 and 2, and kmalloc refuses order 2. Kernel code frees a
pointer again until its memory goes to a later allocation
(`FreeAfterReuse` = FALSE). Every such double free is refused, including
one after the block was merged into its lower buddy or relinked. Every
frame stays free, live or leaked exactly once. The overrun of 4076 is
included. It leaks the block it clobbers, or makes the 4076 block's own
end magic fail once the next frame is written. Neither breaks the
accounting, because a block whose kfree is refused stays given.

The same run checks `AllocatorRefinement` of `Heap`: each kmalloc and kfree
is a step of `AbstractAllocator`, so kmalloc returns NULL for an order below
`MAX_SUPPORTED_ORDER` only when no aligned free run of it exists, and a kfree
that passes the sentinels releases exactly a block its caller held. The
pools stop below `MAX_SUPPORTED_ORDER` because kmalloc's test is `>=`. With
the buddy's own limit in the pools instead, TLC reports the refinement
violated at the first step: kmalloc(9000) asks for order 2, which the buddy
would serve from the free order-2 block, and returns NULL (hazard
pmm.c:39).

**`heap_end_magic_overrun`** (violation): kmalloc(4072) gets frame 4 and
kmalloc(4072) frame 5; frame 4 is freed; kmalloc(4076) gets frame 4 again.
`total_size` = 16 + 4076 + 4 fits a page, but the 8-byte end magic at offset
4092 runs into frame 5 and destroys its live header; kfree of it would log
corruption and leak the block.

**`heap_stale_free_after_reuse`** (violation): the same instance with
sizes 4072, 4080 and 9000, and `FreeAfterReuse` = TRUE. The trace has six
steps:

1. kmalloc(4072) returns frame 4.
2. kmalloc(4072) returns frame 5.
3. kfree(4) frees frame 4.
4. kfree(5) merges frames 4 and 5. Frame 5 keeps FREED_PATTERN, size 4072
   and its old end magic at byte 4088.
5. kmalloc(4080) takes the order-1 block at 4. Its end magic, at offset
   16 + 4080 = 4096, writes ALLOC_MAGIC over frame 5's header magic.
6. A second kfree(5) finds ALLOC_MAGIC in the header and the old end magic
   intact. It frees frame 5, which the live block at 4 contains.

**`slab_safety`** (pass): 455674 distinct states, under symmetry of the page
pairs. Over three slabs of the 2048-byte cache, reached by kmalloc(1025) and
kmalloc(2048), it checks allocation, the
client's writes, kfree, double kfree and shrink. Every object stays in exactly
one place, the counters stay right, and each slab stays on the list its free
count names.

The same run checks `CacheRefinement`. A new page pair is taken only when no
live slab has a free object, and kmalloc returns NULL only when all three
page pairs are slabs and every object is held or lost. Shrink destroys only
slabs whose objects are all free. The abstract cache lets a free be lost, as
the code's rejected kfree loses it; `slab_live_free_refused` shows that
this happens to a first free. The run takes about two minutes.

**`slab_live_free_refused`** (violation): an object is allocated, freed,
handed out again (LIFO) and freed before its first word is written. kfree
sees the poison that `slab_alloc` left in place, calls it a double free, and
the object leaks.

**`sched_round_robin`** (pass): 213 distinct states. It uses `FairSpec`,
whose next-state relation `BootNext` leaves out `task_exit`: no code calls
it (the only tasks are smp_init's `boot_idle_task`, which never returns). The boot tasks spread one
per core, and no started core is left without a task. With the periodic timer,
every created task runs infinitely often.

**`sched_zombie`** (violation): `schedule()` inside `task_exit` resumes the
exited task.

**`sched_offline_cores`** (violation): with one CPU and `MAX_CORES` = 2, the
tasks placed on core 1 never run.

**`vmm_memmgr_safety`** (pass): 412193 distinct states, in about 100
seconds. It covers one address space at a time, created and destroyed again
and again. The calls are maps and unmaps of ranges and of single pages, heap
and stack growth, and other kernel users taking and returning a table frame.
All of these draw on four table frames. Under them:

- the tables stay a tree, and destroy returns every lower-half table;
- no table frame is lost or shared, whether a walk runs out of frames half
  way or a map_range rolls back;
- every user page translates to what the last successful map asked for;
- `total_pages` counts exactly the mapped pages;
- the kernel half is copied into every address space and never freed.

**`vfs_open_refcount_leak`** (violation): 2 states. From the root, the
caller opens `a`, a directory. The cache misses, and the filesystem's lookup
builds the dentry with refcount 1. `path_walk` returns it with a reference
for the caller (2), and `vfs_open` takes another for the file (3). One file
holds it, so the count should be 2. `vfs_close` drops only one, so every
open and close leaks a reference, and the EISDIR, ENOMEM and open-failure
returns also keep the walk's reference. The same trace shows the dentry
linked to itself in its hash chain (`d_hash_next[d1] = d1`). `alloc_dentry`
has already added it, and `path_walk` adds it a second time.

Each property of a passing run has a mutant: a plausible bug in the mapped
code that makes TLC report that property violated.

- `SplitFromKeepsHead`: the split block is never unlinked.
- `CoalesceDropsBuddy`: the buddy is unlinked but not merged.
- `CoalesceSelfCompare`: the scan looks for the block instead of its buddy.
- `CoalesceAppends`: the freed block is pushed at the tail.
- `CandidatesNoTop`: the split search stops one order below the arena's
  maximum, so a request is refused while a top-order block is free (breaks
  `AllocatorRefinement`).
- `LeastBusyNoIndex`: `id` is never updated.
- `NextTaskNoWrap`: there is no wrap to the head.
- `ThreadObjectsOneMore`: slab_create's loop runs one object too far (breaks
  `TypeOK`).
- `PoisonForgotten`: slab_free does not stamp the poison, so a double free
  gets through (breaks `ObjectAccounting`).
- `FreeRelinkNoEmpty`: a slab whose last object returns stays on the partial
  list (breaks `SlabListsConsistent`).
- `HasSourcePartialOnly`: slab_alloc looks only at the partial list, so with
  only empty slabs left it creates another slab, or returns NULL when no page
  pair is left (breaks `CacheRefinement`).
- `HeaderFieldsSwapped`: kmalloc stores size and order in each other's
  field (breaks `TypeOK` of `Heap`).
- `StampForgotten`: kfree does not stamp FREED_PATTERN, so a double free of a
  block merged into its lower buddy is accepted (breaks `HeapAccounting`).
- `OrderSupportedOffByOne`: kmalloc's `MAX_SUPPORTED_ORDER` test refuses
  one order more, so kmalloc(4080) returns NULL while the order-1 run is free
  (breaks `AllocatorRefinement` of `Heap`).
- `ArenaMaxOrderNoCap`: the `MAX_SUPPORTED_ORDER` cap is missing (breaks `TypeOK`).
- `NoPml4Kept`: `vmm_create_address_space` drops the NULL check on the new
  PML4 and returns an address space without one (breaks `TypeOK` of `Vmm`).
- `PdFramesNoSelf`: `free_pd_table` frees the PTs but not the PD (breaks
  `TablesAccounted`).
- `MapLoopRollbackOneMore`: the rollback also unmaps the page that failed,
  which was mapped before the call (breaks `MappingsAsRequested`).
- `MapPageCountsEarly`: `total_pages` is counted before the PRESENT check
  (breaks `TotalPagesCount`).
- `UnmapPageNoCheck`: unmap counts down a page that was not present (breaks
  `TotalPagesCount`).
- `KernelEntriesOffByOne`: the copy of the kernel half starts one entry late
  (breaks `KernelHalfIntact`).
- `NextCoreIdPreIncrement`: the core id is taken as `++cpu_id_ctr` (breaks `TypeOK`).

The `vfs_open_refcount_leak` run uses the following bounds. There are four
dentry objects and one file. The inode tree has a directory `a` under the
root, a file `a` inside it and a file `b` under the root. Every `a` entry
hashes to one bucket, so two dentries of the same name share a chain. Paths
have one or two tokens over `a`, `b`, `.` and `..`.

## 4. Bounds and why they suffice

- **Buddy.** `MaxSupportedOrder` is cut to 2 and the main arena has 9 frames.
  This makes the cap bind (9 frames would give order 3), and there are splits
  of two levels. The buddy of an order-2 block falls in the neighbouring arena.
  `MaxHeld` = 3 lets three blocks be out at once, which is enough to free them
  in an order other than allocation order.
- **HeapLocks.** Two cores and three frames are the smallest case in which an
  allocation and a free overlap with a frame left behind them.
- **Heap.** One arena of four frames holds one order-2 block, so order-0
  and order-1 allocations split it, sit next to each other and merge back.
  The sizes are the edges of the order-0 range: 4072 is the largest whose
  end magic fits a page, 4076 the largest `total_size` still fits, 4080 the
  smallest that needs order 1. It is also the size whose end magic lands
  on the second frame's first word. `MAX_SUPPORTED_ORDER` is cut to 2 so
  that kmalloc's `>=` refusal is reached (9000 bytes). The stale-free run
  leaves out 4076, so that its trace is the stale free and not the
  overrun.
- **Slab.** The 2048-byte class has the fewest objects per slab, (8192 − 48)
  / 2048 = 3. Three page pairs are the fewest that let shrink destroy a slab,
  since it keeps two empty ones. The requests 1025 and 2048 are the smallest
  and largest sizes `slab_alloc_size` sends to that class, so both ends of its
  `<=` comparison are taken. The other seven classes are not instantiated: the
  1024-byte class has 7 objects per slab and the 16-byte class 509. Unused memory starts without the poison
  value, so every refusal the run finds comes from reuse.
- **Vmm and MemMgr.**
  - With two entries per table, the user half has eight pages. A full tree
    over them needs eight tables: one PDP, two PDs and four PTs.
  - Four table frames make a create, a walk or a stack frame run out part
    way. A map of two pages crosses a PT boundary, and rollback happens.
  - Stack frames are never given back, so the pool can also be empty when
    there is no address space, and creation then fails.
  - The heap starts at page 2 and grows two pages at a time up to page 8,
    with two chunks. `MaxRange` = 2 pages per map or unmap call.
  - One frame held by other kernel users (`MaxEnvFrames`) is enough to
    starve a walk. With two, the state space grows about twentyfold.
- **Scheduler.**
  - Two cores stand for `MAX_CORES`, with one boot task per core, as smp_init's
    four tasks are for four cores.
  - Five tasks give a queue of three on one core, which makes the wrap and the
    middle successor both occur.
  - `CounterFloor` = -1 bounds how often a resumed zombie may call `task_exit`
    again (each call decrements the counter).

## 5. Fairness

`FairSpec` assumes weak fairness of three kinds of step:

- **Boot-task creation.** `smp_init` runs its four creations unconditionally.
- **`CoreStart`.** Limine starts every AP given a `goto_address`, and the BSP
  reaches its own `schedule()`.
- **`TimerTick`.** The LAPIC timer is periodic once `boot_idle_task` unmasks
  it.

Tasks created after boot and `task_exit` are left unfair. They are what the
running tasks' code may or may not do.

## 6. What is not modelled, and why

- **Register and port I/O.** This covers APIC/PIT/TSC calibration, framebuffer,
  tty and logging. It has no state that the core reads back.
  - `kvsprintf` is a pure function from a format and its arguments to text,
    and the tty keeps only a cursor and a cell array. A model of either would
    be about text and screen layout, not about the memory and scheduling
    state the project checks.
  - Three hazards of this code are listed without a property: the over-read
    after a trailing `%` (klogging.c:29), the one-byte difference between
    `BUFFER_SAFE_WRITE_CH` and `BUFFER_SAFE_WRITE_STR` (bufferutils.h:12),
    and the fixed 240x135 terminal buffer (tty.c:17).
- **GDT and IDT.** Both are fixed tables, written once.
- **VFS, the rest.** `alloc_inode`/`free_inode` and the superblock inode
  list are not modelled: the model's inodes come from the fixed
  filesystem tree. `vfs_read`, `vfs_write` and `vfs_lseek` only dispatch to
  `f_ops`. The whole-path `/` case dereferences the unset `root_dentry`.
- **Atomics and the other locks.** The atomic operations are compiler
  builtins. `spinlock_lock` is modelled in `HeapLocks` (`SpinlockLock`) as
  the one `atomic_xchg` that finds the lock free: the spinning reads change
  nothing. The rwlock, the ticket lock and `acquire_locks_ordered` have no
  callers. In `rwlock_read_lock`, the overflow `continue` would publish the
  writer bit. That needs 2^31 − 1 readers at once, so it is not a hazard.
- **kmalloc/kfree composition.** `Heap` (large path) and `Slab` (small
  path) are separate modules: a failed slab allocation falling back to the
  buddy, and slabs taking their page pairs from the same buddy, are not
  composed. `Heap` takes each call as one step; `HeapLocks` shows that the
  two heap locks do not make it so. Writes of kernel code into its own
  allocations (which could overwrite a trailer) are not modelled.
- **`wake_up_task` and the process hierarchy.** `wake_up_task` has no
  caller: its one call in `task_exit` is commented out. The
  parent/child/zombie lists are never filled, because no code sets a
  parent (see the Tasks notes).
- **`mm_page_fault_handler` and the region list.** The handler always passes
  a NULL descriptor, so nothing past its first check runs. The region list
  (`mm_add_region`, `mm_remove_region`, `mm_find_region`, `mm_check_access`)
  is read only by that check, so it is left out of `MemMgr`.
  `mm_expand_heap` and `mm_expand_stack` are modelled as the handler would
  call them.
- **Several address spaces.** `Vmm` has one user address space at a time.
  Sharing the kernel half across several is checked only as the copy each
  one gets.
- **`vmm_init` and `vmm_switch_address_space`.** They set CR3 and read
  Limine's HHDM offset, and they own no state that the model tracks.
- **Spec scenario 1 of section 8.** `populate_buddy_blocks` splits the 4 MiB
  arena at 0x100000 by alignment into 0x100000/o8, 0x200000/o9 and
  0x400000/o8. The first alloc(0) therefore returns 0x400000, not the arena
  base the scenario names. `Buddy` reproduces this, but no run keeps it.
