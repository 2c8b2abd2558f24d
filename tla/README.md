# A formal model of tp_sistemas_operativos

The repository is a small operating system spread over processes that talk
through sockets: a **kernel** that schedules, a **CPU** that runs instructions, a
**memoria** that keeps instructions, page tables and user memory, and any number
of **input/output devices** (entradasalida), one of which is a file system,
DialFS. This directory has TLA+ modules that model it, the configurations TLC
checks them with, and theorems about them that TLAPS checks.

The names of the modules and definitions are those of the code (Spanish) wherever
there is one; `PROJECT.json` maps every definition to the lines it models.

- [1. The system](#1-the-system)
- [2. The modules](#2-the-modules)
- [3. What the runs show](#3-what-the-runs-show)
- [4. What is proved](#4-what-is-proved)
- [5. Abstractions, bounds and fairness](#5-abstractions-bounds-and-fairness)
- [6. What is not modelled](#6-what-is-not-modelled)
- [7. Plan](#7-plan)

## 1. The system

### Kernel (`kernel/src`)

Five kinds of threads share the PCBs, the queues and the counters.

| part | state | operations |
| --- | --- | --- |
| `largo_plazo.c` | `cola_new`, `cola_exit` and their semaphores | `crear_proceso` (admits a NEW process when the degree allows it, asks memoria for it, makes it READY), `eliminar_proceso` (one loop that ends processes from any state: releases resources, tells memoria, gives the degree back), `enviar_a_exit` |
| `corto_plazo.c` | `cola_ready`, `cola_priority_ready`, the running PCB | `planificador_corto_plazo`: dispatch, wait for the CPU's answer, `actualizar_contexto`, `atender_syscall` (WAIT, SIGNAL, I/O) |
| `interruptor.c` | the quantum left | a thread per dispatch that sleeps and sends INTERRUPCION, cancelled when the process comes back |
| `multiprogramacion.c` | `prog.running`, `prog.grado`, a counting semaphore of tokens | `add_prog`, `remove_prog`, `modificar_grado`, `check_pause` |
| `recursos.c` | for each resource: instances (negative while processes wait) and a queue; for each PCB what it was assigned | `asignar_recurso`, `desasignar_recurso`, `desbloquear` |
| `interfaces.c` | for each interface: its queue, its occupant, `sem_occupied` | two threads per device, `atender_interface_OUT` (takes a PID from the queue, its `mx_PCB`, and sends it to the device) and `atender_interface_IN` (receives IO_FIN and DESCONEXION, posts that `mx_PCB`) |
| `consola.c` | `paused` | INICIAR_PROCESO, FINALIZAR_PROCESO, DETENER/INICIAR_PLANIFICACION, MULTIPROGRAMACION |

What is hard: `mx_PCB` travels between threads (OUT takes it, IN releases it);
a process may be killed in every state, at every point of every thread; a PID
stays in queues after its process has died; the quantum thread and its
interrupt race with whatever made the process leave the CPU; a device may go
away with processes in its queue, being handed over and inside it.

What makes it correct: every process is always somewhere a thread will take it
from, in one place only; the mutex of a PCB has one owner; degree and instances
are conserved; a process goes along the state diagram of `estado_proceso`; every
process ends.

### CPU (`cpu/src`)

`cpu.c` has two threads: the main one receives EJECUTAR_PROCESO and runs the loop
of `instruction_processor.c` while the global `interrupt` is 1; the other sets
`interrupt` to 0 for each INTERRUPCION, with no regard to which process it was
for. The answer is DEVOLUCION_PCB, followed by a second packet when the process
leaves with a system call. `mmu.c` translates logical addresses with a TLB (FIFO
or LRU) that is never invalidated, cuts an access where pages end, and reads and
writes piece by piece.

The registers of a process live in its PCB, travel in the dispatch packet to the
global `contexto`, are changed there by SET, SUM, SUB, JNZ and MOV_IN
(`registrosCpu.c` gives a pointer and a width for a name) and come back in
DEVOLUCION_PCB.

Hard: late and early interrupts; two packets that belong together; translations
that outlive a page; casts between registers of 8 and 32 bits; answers that are
out of step after a kill. Correct: what the kernel receives is what it waits for; a
program reads and writes its own memory and its own registers.

### Memoria (`memoria/src`)

A thread per client (kernel, CPU, each device). `paginacion.c` has the frame
bitmap and the physical memory, `memoria-utils.c` the processes with their page
tables and the requests: create, end, RESIZE, frame of a page, read, write.
`mx_memoria` guards the copy of the bytes and the taking of one frame, and not
the marks a write makes in the bitmap, nor a RESIZE as a whole.

`main` accepts connections and gives each to a thread, `atender_cliente`, which
keeps its descriptor in the global list `lista_sockets_conectados` once the client
did the handshake, and refuses requests from a descriptor that is not there.
The clients retry until memoria listens (`utils/conexion.c`).

Hard: a RESIZE counts frames and then takes them one by one; a byte of the bitmap
is read and written back while another thread changes other bits of it; the list
of descriptors has no mutex and nothing ever leaves it; a descriptor is closed
twice, and may be somebody else's by then. Correct:
page tables are disjoint, frames in use are marked, a RESIZE grants all or nothing,
each process has a private memory; who connects is served, and a reply reaches
who asked.

### Devices (`entradasalida/src`)

`main.c` serves one request of the kernel at a time: sleep, STDIN (writes to
memoria at physical addresses the CPU translated), STDOUT (reads), and for
DialFS create, delete, write, read, truncate. `filesystem.c` keeps contiguous
files on blocks, a bitmap, a metadata file per file, and compacts when a file
cannot grow where it is.

Hard: a long sequence of requests over three structures that must agree; a
compaction that moves files over blocks it has just freed; a device that ends
between two writes and starts again over what it left (`crear_bitmap` and
`generar_archivo_bloques` keep old files). Correct: files are
apart and marked, no block is lost, a compaction moves files unchanged, also when
it is cut short.

### How they interact

```
          dispatch (EJECUTAR_PROCESO / DEVOLUCION_PCB, system call)
 consola -> KERNEL <=====================================> CPU
            |  ^ \  interrupt (INTERRUPCION)  -------------^ |
   IO_* ops |  |  \ CREAR_PROCESO, FIN_PROCESO               | instructions, RESIZE,
            v  | IO_FIN      \                               v frames, reads, writes
          DEVICES ----------- reads, writes ------------> MEMORIA
```

## 2. The modules

| module | models | notes |
| --- | --- | --- |
| `ControlAdmision` | abstract: a degree, how many processes run, an admission may always be made when there is room | |
| `Multiprogramacion` | `multiprogramacion.c` with its callers | refines `ControlAdmision` |
| `Recursos` | the counters and queues of `recursos.c`, each operation one action under `mx_recurso` | |
| `KernelEstado` | the variables the kernel's threads share, packets, `cambio_estado`, `enviar_a_exit`, `desbloquear` | |
| `LargoPlazo` | threads `crear_proceso` and `eliminar_proceso` | one action per stretch between two waits |
| `CortoPlazo` | `planificador_corto_plazo`, quantum thread | the same; `reloj` is the process a quantum thread sleeps for |
| `Consola` | the commands | `proc_end` is two actions, since it reads the state without `mx_PCB` |
| `Interfaces` | IN, OUT and the device, for each interface | `cola_io` has FinCola for the -1 that ends OUT |
| `Cpu` | the two threads of the CPU | a program is any sequence of instructions with a bounded number of system calls |
| `Kernel` | all of these together; fairness | |
| `CicloDeVida` | abstract: the state diagram of a process, one in the CPU, no READY process waits for ever for a free CPU | refined by `Kernel` |
| `KernelPropiedades`, `MCKernel` | the properties; values for TLC | |
| `Paginacion` | frames, page tables, bytes of memoria | |
| `Mmu` | TLB and cut of addresses | |
| `SistemaMemoria` | CPU, memoria and a device that work on the same memory | |
| `EspacioPrivado` | abstract: each process has a memory of its own | refined by `SistemaMemoria` |
| `MemoriaPropiedades`, `MCMemoria` | the properties with the refinement mapping; values for TLC | |
| `DialFS` | the file system of a device, its end in the middle of a request and its restart | a compaction takes one step per file, in any order the directory and the sort may give to files with the same first block |
| `Conexiones` | `conexion.c` and the sockets of `memoria-utils.c`: modules that connect, ask and disappear, the accepting thread and one thread per connection | descriptors are numbers that accept uses again, the lowest first; each step of `agregar_socket_conectado` is an action, and the list is a chain whose end two threads may have found at once |
| `MaquinasPrivadas` | abstract: each program has registers of its own, with arithmetic modulo their width | |
| `Registros` | the registers in PCB, packets and CPU, `ejecutar_proceso`, `actualizar_contexto`, the arithmetic instructions, kills | refines `MaquinasPrivadas` |
| `MCPiezas` | `Multiprogramacion`, `Recursos`, `DialFS`, `Conexiones` and `Registros`, one of them per behaviour, for TLC | |
| `Colas_lemas` | lemmas about queues without repetitions, proved | |
| `Piezas_proofs` | theorems about `Multiprogramacion`, `Recursos` and `Registros`, and about the five parts of `MCPiezas` together | extends the next two |
| `Conexiones_proofs` | theorems about `Conexiones` | |
| `DialFS_proofs` | theorems about `DialFS` | |
| `Kernel_proofs` | the invariant of the kernel: types, queues and their semaphores, occupation of the interfaces; who owns each `mx_PCB`; what kernel and device owe each other | extended by the next two |
| `KernelEstados_proofs` | states, ready queues and quanta | |
| `KernelCiclo_proofs` | life cycle, degree, that nobody is forgotten, the use of the two counters, the answers of the CPU | |
| `SistemaMemoria_proofs` | theorems about memory, and its refinement | |

`Kernel` does not use the actions of `Multiprogramacion` and `Recursos` as a black
box: their operators are the ones its threads call (`M!AddProg`, `R!AsignarRecurso`,
...), and `UsaMultiprogramacion` and `UsaRecursos` say that every step of the
composed kernel is a step those modules allow (`ProgPaso`, `RecPaso`) or leaves
their variables alone. Both are proved; they carry what is proved of the two over
to the kernel. `ProgNext` and `RecNext`, which TLC explores, are the same steps
with the bounds on the counters (`WaitAcotado`, `SignalAcotado`, `SaleAcotado`,
`ConsolaAcotada`), and the theorems of the two components are about the steps
without bounds.

`SistemaMemoria` keeps of the kernel only its discipline: a process is in the CPU,
waits for the device, or neither, and is dispatched or ended only in the last case.
`MemoriaVigente`, `MutexPCB` and `RespuestaEsperada` of `KernelPropiedades` are what
justifies it, and all three are theorems about the kernel (the first and the last
while the console ends no process).

## 3. What the runs show

Passing runs:

| run | instance | shows |
| --- | --- | --- |
| `piezas` | five parts that share nothing. Counters: 3 processes, 1 resource, degrees -1, 0, 2. DialFS: 5 blocks, 3 files of up to 2 blocks, 5 requests, a restart. Connections: 3 modules one at a time, 2 at any time, a request each. Registers: 3 processes, registers of 2 and 3 bits, 2 instructions | no slot of the degree and no instance is lost (`SinPlazaPerdida`, `SinInstanciaPerdida`, `ColaSegunInstancias`, `EsperaAsignada`, `NoExcedeGrado`), `ControlAdmision` is implemented with its liveness; a compaction, complete or cut short, keeps the one-block files it moves, and a complete one the file that grows (`CompactarConserva`), the bitmap stays exact until a file grows (`SinBloquePerdido`), and an end in the middle of a request leaves a sound disk unless blocks were being given back (`CaidaSana`); memoria closes a live connection, or answers somebody else, only through one of its two races, and never while modules come and go one at a time (`CorteExplicado`, `RespuestaPropia`), when every module is served (`TodosAtendidos`); no process sees the registers of another and the casts add up (`RegistrosPrivados`) |
| `comandos` | FIFO, 2 processes, a resource, all commands | queues and their semaphores agree, no process in NEW, READY, EXEC, BLOCKED or EXIT is forgotten (`NadieOlvidado`), the degree is exact, the life cycle is respected |
| `quantum` | VRR with a quantum of 2, a device, no kills | a READY process is in one queue once, quanta are coherent, the CPU's answers are the ones awaited, memoria is never asked about a process it does not have |
| `interfaces` | a device that may disappear, a resource without instances, every way a program can fail, kills | `mx_PCB` always has one owner, `sem_occupied` is never lost or doubled, IO_FIN always has an occupant, nobody is forgotten |
| `vive` | FIFO, resource and device, fair threads | every process ends |
| `vive_matar` | RR, kills, fair threads | the kernel implements `CicloDeVida` with its liveness; every process ends |
| `memoria` | 2 processes, 3 frames of 2 bytes, 4 memory instructions; three configurations, in none of which a STDIN write overlaps a RESIZE | tables disjoint and marked, translations in use are current, RESIZE all or nothing, reads give the process's own bytes, the system implements `EspacioPrivado` |

Runs that find what the code does against what it says of itself:

| run | property | what TLC finds |
| --- | --- | --- |
| `devolucion` | `DevolucionValida` | a process killed in EXEC leaves its system call unread in the dispatch socket; the next answer the kernel reads is that call and an innocent process ends in ERROR |
| `interrupcion` | `SinError` | a quantum interrupt that arrives late stops the next process before its first instruction; it comes back with motivo NONE and ends in ERROR |
| `abrazo` | `SinAbrazo` | SIGNAL and `eliminar_proceso` take `mx_recurso` and `mx_PCB` in opposite orders |
| `memoria_tlb` | `TraduccionVigente` | after a page is given back and taken again, the TLB answers with the frame it had |
| `bitmap` | `MarcosMarcados` | a write of a device that overlaps a RESIZE puts an old byte back in the bitmap and the frame just taken is free again |

The passing runs stay clear of these five on purpose, and say so in their
configuration: `quantum` has no kills (`devolucion` needs one), `comandos` and
`interfaces` do not check the properties those break, `memoria` uses the
configurations `ConfigsSeguras`: without TLB; with a TLB and programs that only
grow; with a TLB and a STDIN device that does not write during a RESIZE and
programs that only grow.

Every property of a passing run has a mutant in `PROJECT.json`: a definition of
the model changed the way a slip in that code would change it, which the run
then rejects. The mutants are in the modules next to what they change.

`CHECK_DEADLOCK FALSE` is in every configuration because the system may really
stop: nobody has to type a command, and a bounded program or request counter
runs out.

## 4. What is proved

All of it holds for any sets of processes, resources and interfaces and any sizes.
Where a theorem has a hypothesis, it is one on the constants that passing runs
satisfy, and a run or a listed hazard shows that the property is false without it;
except `SinInstanciaPerdidaSiempre`, which is about finitely many processes, because
a sum over infinitely many says nothing and a PID is an int.

**The two counters**, in `Piezas_proofs`.

- `SinPlazaPerdidaSiempre`, `NoExcedeGradoSiempre`, `ImplementaAdmisionSiempre`. The
  invariant is the type invariant with
  `SinPlazaPerdida` itself: tokens and admissions in course cover the free slots.
  The refinement of `ControlAdmision` follows step by step from it (its safety;
  the fairness part is TLC's). Assumptions: the initial degree is a natural
  number, the console's degrees are integers.
- `ColaSegunInstanciasSiempre` and `EsperaAsignadaSiempre`. Each
  needs the other: that the removal of a waiting process from a queue takes
  exactly one entry needs the queues to be without repetitions and every waiting
  process to have an assignment. `Colas_lemas` has what removing the first
  occurrence of an element does to a queue.
- `SinInstanciaPerdidaSiempre`, for any finite set of processes. The property sums
  what all of them hold with a fold. That the fold has a value (`SumaExiste`)
  and what it becomes when one process takes or gives back (`SumaCambia`) are
  inductions over the sets of processes; here each is an argument by a
  smallest counterexample (`MenorConjunto`).

**The registers**, in `Piezas_proofs`: `RegTypeOKSiempre` and `RegistrosPrivadosSiempre`.
`Registros` implements `MaquinasPrivadas` for any programs and widths. `RegsInv` says
that the registers of a process are in one place (`EnUnLugar`): the CPU, a packet
of dispatch, an answer not yet read, or its PCB; and that what follows an answer
with a system call is that call (`SyscallSigue`), also when a kill has put the
answers out of step. Each
step is a stutter of the abstract machine, an instruction of one process, or its
end. That the casts of SUM and SUB between widths are the operations of the
integers with sign needs powers of two, of which the provers know nothing:
`PotenciaEnNat` and `PotenciaDoble` get them from the number of subsets of a set.

**The connections of memoria**, in `Conexiones_proofs`: `ConTypeOKSiempre`,
`CorteExplicadoSiempre` and `RespuestaPropiaSiempre`, for any number of modules. The
invariant has two layers.

- `ConInvLibre` holds however modules come and go: a number belongs to
  the thread of its connection (`DuenioVivo`), a connection is accepted once and before
  anybody answers it (`ColaNueva`), the handshake is the first packet
  (`HandshakePrimero`), and a thread that still owns its number closes it only
  when its module has gone, or has lost its place in the list, or shares the
  number (`CierraConMotivo`). It gives what the two properties say of the races.
- `ConInvCalma` holds when they come and go one at a time: one module
  at most is at its start or its end (`UnoOcupado`), no two threads have one number
  (`SinCompartir`), each module that is there has its connection (`Conectado`), and
  whoever was answered is in the list or about to be put there
  (`AtendidoEnLista`). It excludes the races.

**DialFS**, in `DialFS_proofs`, for any names, contents, sizes of disk and block,
numbers of requests and restarts: `DialTypeOKSiempre`, `SinBloquePerdidoSiempre`,
`CaidaSanaSiempre`, `CompactarConservaSiempre`. Beside the types, `DialInv` is about a
compaction in course: its list has files that exist, once each and inside the disk
(`ListaOK`), and, when it began in a sound disk with the other files of one block, the
list is in the order of the blocks and a file
already moved lies before all that are to be moved and before all free blocks
(`EnOrden`). So a move never lands on a file, and the blocks from the first free one
on are free for the file that grows, whose content the device holds (`Guardado`).

**The five parts together**: `TiposOKSiempre` is the type invariant of `MCPiezas`,
from the invariants of the five.

**The kernel**, all its threads with the CPU and the devices, in three modules that
extend each other. The frame lemmas (`Huella...`) say once what each thread leaves
alone, so that a property of one part of the state is argued only for the threads
that write it.

- `Kernel_proofs`: `TypeOKSiempre`, `ColasContadasSiempre`, `OcupacionExactaSiempre`.
  `TypeOK` is not inductive: that a thread never uses the PCB NULL follows from
  where the thread is (`ManosCrear`, `ManosElim`, `ManosPlan`, `ManosConsola`,
  `ManosOut`, `ManosCpu`), that from the heads of the queues it pops, those from the
  semaphores that count the queues (`ColaNewOK`, `ColasReadyOK`, `ColaExitOK`,
  `ColasIOOK`), and for resources from the instances. `PausaOK` and `AdmisionOK` say
  who holds `mx_pause` and the token. `KInv` is all of them: they hold together or
  not at all. No hypothesis.
- In the same module, `MutexPCBSiempre` and `OcupanteEnFinSiempre`. `MutexPCB` counts
  the owners of a mutex; a count is not inductive when the owner changes from
  OUT to a device to IN. `MutexOK` names the owner, and `DispositivoOK` says what an
  interface and its device owe each other: connected, at most one request in
  flight, and exactly one when there is an occupant (`ConectadoOK`, `UnPedido`); after
  DESCONEXION, nothing more (`DesconectadoOK`). So IN never posts a mutex twice and
  IO_FIN finds its occupant. No hypothesis.
- `KernelEstados_proofs`: `ReadyEnColaSiempre` and `QuantumCoherenteSiempre`. `EstadosOK`
  is the rule of who may change a state: each thread does it while it has
  `mx_PCB`, or knows the state for another reason. With it each thread has its
  set of pairs <<before, after>> (`ParesElim`, `ParesPlan`, `ParesAjenos`), and `ReadyOK`
  and `QuantumOK` are argued pair by pair. `RelojOK` says that a quantum thread
  runs only while the planificador waits for its process. No hypothesis.
- `KernelCiclo_proofs`:
  - `RespetaCicloSiempre` (the safety of `CicloDeVida`, as a step simulation),
    `GradoExactoSiempre` and `UsaMultiprogramacionSiempre`, under `UnFin`: FINALIZAR_PROCESO
    is not used, or once for each process. `FinOK` relates the state of a process
    with the requests to end it that nobody has served; there may be two of
    them even so, the console's and the process's own, and `FinOK` says in which
    states. Without the hypothesis they are false: with `MaxFin` = 2 TLC takes a
    process from DELETED back to EXIT, and its slot is given back twice (hazard
    at consola.c:185 in `PROJECT.json`).
  - `NadieOlvidadoSiempre` and `UsaRecursosSiempre`, without hypothesis. `Lug(p)` is the
    set of places where p is: queues of resources and of interfaces, the hands
    of a thread that wakes it up, of OUT, of a device. `EsperaOK` says that it never
    has two elements, has one when p is BLOCKED and none in the states before.
    `NewAtendido` and `SalidaOK` say of NEW and EXIT where the process is, `ReadyOK` and
    `UnoEnExec` of READY and EXEC; `OutOK` says that a thread OUT serves a queue as
    long as somebody may be in it, `LiberaOK` that the count of assignments that
    `eliminar_proceso` read is not stale when it uses it.
  - `RespuestaEsperadaSiempre`, `DevolucionValidaSiempre`, `MemoriaVigenteSiempre`, under
    `SinFines`: the console ends no process. `LineaOK` follows the one packet that
    goes round between planificador and CPU: on its way (`EnViaje`), in the CPU
    (`EnCurso`), coming back with or without a system call (`DeRegreso`). With kills
    each of the three is false; the run `devolucion` shows it for the second.

**Memory**, in `SistemaMemoria_proofs`.

- `MemTypeOKSiempre`, without hypothesis. `TipoInv` adds to the types that the pieces of
  an access are a chain without holes (`Cadena`) that ends inside the process, and
  that the bytes typed at a console are as many as the pieces still to write.
  `Pendientes` is a recursive function over a sequence; that it does not lengthen
  it is proved with the least counterexample in place of induction.
- `TablasDisjuntasSiempre`, `MarcosMarcadosSiempre`, `ResizeTodoONadaSiempre`, under
  `SinCarrera` (no configuration lets a STDIN device write during a RESIZE; the run
  `bitmap` shows that without it the second is false, and with a frame in use that
  looks free the next RESIZE makes the first false too). `MarcosInv` adds
  that a RESIZE in course is of the process in the CPU (`AccesoOK`), that none is in
  course while a STDIN device has requests (`ResizeSinIO`), and that the byte of
  the bitmap a device write has read still has the bits of every page
  (`ByteVigente`), without which its mark could put back an older one.
- `TraduccionVigenteSiempre`, under `SinTLBVieja` (each configuration is without TLB or
  with programs that only grow; the run `memoria_tlb` shows why). `VigenteInv` is
  the property with the entries of the TLB, which may be of a process that is over.
- `LecturaPropiaSiempre` and `EspaciosPrivadosSiempre`, under both: the whole of paging, TLB
  and device implements `EspacioPrivado`. In the mapping the memory of a process
  is what its table gives of the frames. Each step is a stutter (`EsQuieto`), the
  start of a write (`EsPide`), one piece of it (`EsEscribe`) or a RESIZE
  (`EsAjusta`): a write in the physical memory changes the bytes of one process
  because the tables are disjoint, and the right ones because the translation
  is still the current one.

The proofs changed the model where it could not be reasoned about:
`Pendientes` became a recursive function, the bounds of the counters
moved from the operations to `RecNext` and `ProgNext`, `FinesDados` got a name, and
an answer of the CPU in `Registros` is written as one record.
One property was restated: with `RecNext` in the kernel, `UsaRecursos` compared its
steps also with bounds that belong to the exploration of the component alone.

In two places the proofs showed the model to be wrong. `Conexiones` had
the list of sockets as a set; it is a chain, and a thread links its
element to the end it found, which cuts off what another thread linked there in
between (memoria-utils.c:295). `DialFS` ordered the files with the same first block
in one fixed way; the directory and the sort may give any order, and the theorem
is about all of them.

Only model-checked, and why:

- Liveness and fairness, which the provers cannot do: `TodosTerminan`, `ImplementaCiclo` (its
  safety is `RespetaCicloSiempre`), `TodosAtendidos`, the fairness of `ControlAdmision`
  in `ImplementaAdmision` (its safety is `ImplementaAdmisionSiempre`).
- The properties of the five runs that expect a violation.

Every other property of a passing run is a theorem.

## 5. Abstractions, bounds and fairness

### Granularity

Mutexes held for straight-line code (`mx_cola_*`, `mx_lista_PCB`, `prog.mx`) disappear:
what they guard is part of one action, and a `queue_push` goes with the `sem_post`
that announces it. Mutexes held across a wait (`mx_PCB`, `mx_recurso`, `mx_interface`,
`mx_pause`) are variables. Further:

- A pop and the `check_pause` next to it are one step when the queue has one reader.
- DEVOLUCION_PCB and the system call after it enter the socket in one step; the kernel
  reads them in two.
- memoria's end of a process takes effect when the kernel sends FIN_PROCESO; the
  reply to CREAR_PROCESO is part of the step that asks.
- The search of an interface by name takes one step; the visits to the
  `mx_interface` of other interfaces on its way only delay it.
- DESCONEXION: the push of -1 is in the same step as the section under `mx_interface`.
- An interface connects at most once in a behaviour, and its handshake is part of that step.
- Instructions that do not leave the CPU are one action, NORMAL, in the kernel's
  model; the ones that touch memory are in `SistemaMemoria`.
- The cancelled quantum thread leaves any quantum from 0 to what the process had:
  real time is not modelled.
- In `DialFS` the content of a block is one value and a compaction moves a file
  in one step: the device has one thread. Its end in the middle of a request is
  a step too (`CaeEntreMarcas`, `CaeCompactando`), from the writes that were made:
  each mark has its msync, a metadata file is written in one piece.
- In `Conexiones` a packet arrives whole, and a packet that a module sent just
  before it ended arrives or does not. recv holds on to the connection it was
  called with, even when the number is closed by another thread meanwhile.
- `Conexiones` has two modes, chosen at the start. In calm mode (`calma`) a module
  starts or stops only when no other is connecting and memoria is done with
  whoever left; the descriptors are still used again. In the other anything
  happens at any time: there the races of memoria are characterised by
  `CorteExplicado` and `RespuestaPropia`, not excluded. What two threads do to
  `lista_sockets_conectados` at once is: one list made over another, or one element
  linked over another. The count that the list keeps of its elements is
  taken to be their number; after an element was linked over another it is more,
  and a search that does not find its descriptor would go past the end.

### Data

- A register of two bytes stands for the ones of four: what matters is that it
  may cross a page.
- memoria answers a read as a C string: what follows a zero byte arrives as zero.
- The bytes of STDIN are any: the program reads past the end of a short line. What
  STDOUT prints is not kept.
- Programs access memory they have, and files inside their size. The -1 of
  `obtener_marco_pagina` is in the model (`SinMarco`) and the CPU would go on with it as
  the code does; `TraduceMarco` proves that it never comes. The NULL of
  `leer_de_memoria` past the end of the memory is left out.
- Registers are of 2 and 3 bits in place of 8 and 32: what matters is a sign in
  the narrow one and a wrap in both. JNZ is what the code does: it gives the number
  to the register itself when that is zero, where the comment of
  instruction_processor.h:75 tells of a jump when it is not.
- A compaction marks the blocks of a copy with a count where
  `bitmap_marcar_bloques_ocupados` takes the last block (filesystem.c:457), and
  `MarcasDe` does the same: a moved file of several blocks may stay partly unmarked
  and be written over. `CompactarConserva` is therefore about moved files of one
  block and about the content of the file that grows.
- The bitmaps have a bit for each frame and each block; bits past the end of
  the disk are kept, since compaction marks them.

### Bounds

| bound | meaning | why it is enough |
| --- | --- | --- |
| `MaxFin`, `MaxFines` = 1 | FINALIZAR_PROCESO per process, in all | one kill reaches every state of every thread; two of the same process in EXEC is a hazard listed in `PROJECT.json` |
| `MaxSyscalls` | system calls per program | 1 or 2 lets a process come back to a queue it was in |
| `MaxFichas` | value of `prog.sem` | two above the largest degree: surplus tokens happen |
| `MaxTenencia`, `MaxInstancias` | WAITs a process holds, instances SIGNALs may add | one process may hold several instances |
| `MaxInstrucciones` | memory instructions in a behaviour | two RESIZEs, a write and a read; 5 were run too |
| `MaxPedidos`, `TamMaximo` | DialFS requests, largest size | create two files, grow one by compaction, then move the grown one |
| `MaxReinicios` = 1 | restarts of a device | the state a restart finds is any a request can leave; a second one adds the same steps |
| `MaxModulos` = 3, `MaxLibres` = 2, `MaxAccesos` = 1 | modules in calm mode, modules in the other, requests of each | a number is used again twice; two threads race in the list, for a number and for a reply |
| `MaxEjecutadas` = 2 | instructions in a behaviour of `Registros` | one gives a register a sign, the next adds it; kills and dispatches are not bounded, since each kill is final |
| `Entra` | a compaction begins when the files fit in the disk after the growth and none is past its end | past it the code reads what was never written; where a compaction runs out of free blocks the behaviour ends, for the code copies to block -1 |

### Fairness

`SpecJusta` gives weak fairness to every thread (the operating system goes on
running a thread that can run) and to a device that has work. Strong fairness is
only on a process that gets the CPU again and again and reaches its EXIT:
programs are finite. No fairness on commands, connections or disconnections.
`vive` has no kills or SIGNAL, and `vive_matar` no resources, because of
`abrazo`: with both the kernel may stop.

In `Conexiones` the threads of memoria are fair, and so is a module that retries a
connection (crear_conexion has no end but success) or waits in recv; nobody has
to start, ask or stop. `TodosAtendidos` is about calm mode.

## 6. What is not modelled

- Byte layout of packets, configuration files, logging, readline and the parsing
  of commands and instructions (atoi gives 0 for what is not a number),
  PROCESO_ESTADO (prints), the instruction files of memoria.
- Start-up order of the kernel: its threads and its console run while main still
  initialises counters and retries its connections.
- Connections to the kernel and to the CPU; a device that comes back under the name
  of one the kernel still lists; SIGPIPE in memoria.
- `lista_procesos` of memoria as a list that two threads use without a mutex;
  what an access past the pages of a process reads; allocation (use after free, and
  the IO_FS_READ case, entradasalida/main.c:189, which frees the FCB of IO_FS_CREATE).
- IO_GEN_SLEEP with a time of 0, which never answers (entradasalida/main.c:323).
- In DialFS a full disk on CREATE, an existing name, writes past the end of a
  file, and metadata half written.
- IO_FS_READ and IO_FS_WRITE against memoria: for memoria they are the reads and
  writes of STDOUT and STDIN.

Modelled as coded, with properties that start from states before it: growth in
place, which sets the first block to 0 (filesystem.c:289), and the marks after a
compaction (filesystem.c:457).

The components and hazards of `PROJECT.json` say for each what is left out and
why.

## 7. Plan

Done: the kernel with all its threads, CPU and devices; the two counters; memory
with paging, TLB and a device; the file system with restarts; the connections of
memoria; the registers. Proved: every safety property of the passing runs, with the
four refinements (`MaquinasPrivadas`, `EspacioPrivado`, and the safety of
`ControlAdmision` and of `CicloDeVida`).

Next, in this order:

1. **DialFS**: runs that show the compaction that loses a file of several blocks and
   the growth in place that sets the first block to 0; IO_FS_READ and
   IO_FS_WRITE against `SistemaMemoria`.
2. **Kernel**: start-up order, two kills of one process, an interface that
   reconnects, CREAR_PROCESO and FIN_PROCESO as messages in flight.
3. **Proofs**: that `SistemaMemoria` keeps the discipline the kernel gives it, as
   a theorem about the two composed.
