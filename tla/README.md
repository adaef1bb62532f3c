# Formal model of the operating-systems simulator

The repository is a distributed simulator of an operating system: four
programs (kernel, CPU, memory, IO) joined by sockets, written in C with
pthreads. What makes it hard is not in any one function. The kernel moves
processes between seven lists, each under a mutex of its own, from as many
threads as there are CPUs, devices and timers, and waits for the answers of the
memory through three flags that all its threads share. The memory is itself
served by one thread for the kernel and one per CPU, over page tables without a
lock. The modules here are about those interleavings.

Names follow the source: `enviar_a_cpu`, `exec_a_blocked`, `liberar_cpu`,
`REQUEST_FRAME`... are the functions and messages of the C code. `PROJECT.json`
maps every definition to the lines it stands for.

## 1. Inventory

| Part | State | Operations | Talks to |
| --- | --- | --- | --- |
| kernel: planners (`planificadores.c`) | seven lists of PCBs, pid counter, two counting semaphores | `INIT_PROC`, long term FIFO / PMCP, short term FIFO / SJF / SRT, `exec_a_blocked`, `blocked_a_ready`, `EXIT_PID`, block timers | memory, CPUs |
| kernel: CPU table (`kernel_manejo_cpus.c`) | `lista_CPU`: free or busy, process running | `conectar_cpu`, `buscar_cpu_disponible`, `liberar_cpu`, preemption | CPUs |
| kernel: dispatch (`kernel_cpu_dispatch.c`) | one thread per CPU | the four system calls | planners, memory |
| kernel: memory answers (`kernel_memoria.c`) | three flags and three semaphores shared by all requesters | one handler per answer | planners |
| kernel: devices (`kernel_manejo_ios.c`, `kernel_io.c`) | list of devices, queue of waiting processes | connect, disconnect, queue, start, `FIN_IO` | devices, planners |
| memory: kernel side (`memoria_kernel.c`, `memoria_finalizar.c`, `memory_dump.c`) | list of processes | create, suspend, resume, finish, dump | kernel |
| memory: frames, tables and swap (`manejo_memoria.c`, `memoria_swap.c`) | page tables, frame bitmap, bytes in use, swap file and its entries | give and take frames, copy to and from the file | both sides |
| memory: CPU side (`memoria_cpu.c`) | the same | instruction, frame, read, write, full page | CPUs |
| CPU (`cpu_ciclo_instruccion.c`, ...) | pid, pc, pending interrupt, TLB, page cache | fetch, decode, execute, check interrupt, TLB FIFO / LRU, cache CLOCK / CLOCK-M, flush | kernel, memory |
| io (`io_kernel.c`) | none | sleep and answer | kernel |
| utils (`utils.c`) | none | sockets, packets | all |

How they interact:

- **Kernel and CPU.** The short term planner sends pid and pc to a free CPU on
  its dispatch socket. The CPU answers with system calls on the same socket. A
  blocking call gives the CPU back, `INIT_PROC` does not. A second socket
  carries interrupts (SRT only).
- **Kernel and memory.** One socket, requests from any thread of the kernel.
  The answers are read by one thread, which stores them in
  `respuesta_*_proceso` and posts `binario_respuesta_*_proceso`.
- **Kernel and devices.** One socket per device: start an IO, hear of its end.
- **CPU and memory.** One socket per CPU: instructions, the frame of a page,
  reads and writes. The CPU waits for frames and does not wait for writes.

Hard behaviours, and the properties that make each part correct:

| Part | What is hard | What must hold |
| --- | --- | --- |
| planners | a move between lists is a remove and an add under two mutexes; a planner carries a pointer across an answer of the memory | a PCB is in one place, once; what a planner carries stays where it was read; every step is an arrow of the life cycle |
| planners, liveness | one semaphore token per event, spent whether or not the event could be used | nobody sleeps on work that could be done; every process ends |
| CPU table | released by pid, by whichever thread ends or blocks the process | one CPU per process; a CPU is free once its process has ended |
| memory answers | one flag per kind of request for all threads; one request may get two answers | a process runs only if the memory gave it its frames |
| timers | the timer of one block may expire in a later one, or after the PCB is freed | a suspended process holds no frames; a wake-up is not lost |
| frames and tables | the tables have no lock and are read a delay after the process was found | no frame has two owners; a CPU is always answered |
| short term, SRT | an interrupt crosses the system call of the process it is for; the planner waits for the CPU with a mutex the answer needs | kernel and CPU agree on who executes; a process goes on where it was; nobody shorter waits |
| devices | one token and one process per event; devices come and go, also while the queue is read | a blocked process has one request and somebody has it; nobody waits for a free device |
| page tables | six routines go down the same tree, each with its own arithmetic | they see one array of pages |
| swap | frames are freed before they are copied out; the file never shrinks | data survives suspension; the count of frames is exact |
| TLB and cache | ages reset in some branches and not in others; four write-backs, one per branch; entries that survive an interruption | no entry outlives its frame; the last write is not lost; replacement in the promised order |

The full list of hazards, each at its line, with the properties that would
catch it or the reason why none does, is `hazards` in `PROJECT.json`.

## 2. Modules

| Module | Models | Extends |
| --- | --- | --- |
| `Planificacion` | the scheduling core of the kernel | |
| `CicloDeVida` | what the kernel promises of a process: the abstract life cycle | |
| `MCPlanificacion` | instances for TLC | `Planificacion` |
| `Listas` | lemmas about the list operations | |
| `Planificacion_proofs` | theorems about `Planificacion`: types, places, what a planner carries | `Planificacion`, `Listas` |
| `PlanificacionCpu_proofs` | ... the table of CPUs, the tokens of the short term planner, the refinement of `CicloDeVida` | `Planificacion_proofs` |
| `Memoria` | the memory: frames, tables, swap, its threads and the CPUs that ask | |
| `MCMemoria` | instances for TLC | `Memoria` |
| `Memoria_proofs` | theorems about `Memoria`: types, owners of frames, answers, the count of frames | `Memoria`, `Listas` |
| `MemoriaDatos_proofs` | ... the data of the processes | `Memoria_proofs` |
| `PaginasCPU` | the TLB and the page cache of a CPU, in front of the frames | |
| `ColaReemplazo` | what FIFO and LRU promise: an abstract queue | |
| `MCPaginasCPU` | instances for TLC | `PaginasCPU` |
| `PaginasCPU_proofs` | theorems about `PaginasCPU`: types, entries, writes, the refinement of `ColaReemplazo` | `PaginasCPU`, `Listas` |
| `CortoPlazo` | SJF, SRT and the preemption of a CPU, with the cycle of the CPU | |
| `MCCortoPlazo` | instances for TLC | `CortoPlazo` |
| `CortoPlazo_proofs` | theorems about `CortoPlazo` | `CortoPlazo`, `Listas` |
| `ColaIO` | the devices, their queue and their threads | |
| `MCColaIO` | instances for TLC | `ColaIO` |
| `ColaIO_proofs` | theorems about `ColaIO` | `ColaIO`, `Listas` |
| `TablasPaginas` | the page tables as a tree of levels and every routine that goes through it | |
| `TablaPlana` | what the tree means: an array from pages to frames | |
| `MCTablas` | instances for TLC | `TablasPaginas` |

Each module has what its neighbours do as plain steps: `Planificacion` has FIFO in the
short term, one kind of device and a memory of one request at a time; `CortoPlazo` has
no suspensions; `ColaIO` no lists but where a process is; `Memoria` has a table of one
level, and `TablasPaginas` one request at a time.

### Planificacion

A step is what one thread does between two points where another can see it: a
mutex section, a semaphore operation or a send. `sem_post` goes with the section
before it and `sem_wait` with the test after it, as neither can disable a step
of another thread.

| State | In the code |
| --- | --- |
| `cola` | the lists whose order the planners use: NEW, READY, SUSP_READY |
| `lista` | those only searched by pid: EXEC, BLOCKED, SUSP_BLOCKED, EXIT, and TIMER: a PCB a timer has taken out of BLOCKED and not yet put in SUSP_BLOCKED |
| `largo`, `corto` | `contador_replanificacion_largo` / `_corto` |
| `hilo` | per thread, where it is and the process and pc it carries |
| `listaCPU`, `running` | `lista_CPU`, `proceso_running` of each node |
| `respuesta`, `binario` | the shared flags and semaphores |
| `dormido`, `aviso` | timer threads asleep, and about to notify the memory |
| `colaIO`, `enIO` | `lista_procesos_en_cola`, `proceso_en_ejecucion` |
| `aMemoria`, `deMemoria`, `deCpu` | the sockets |
| `residencia`, `cpu` | the memory and the CPUs as the kernel sees them |

| Actions | In the code |
| --- | --- |
| `init_proc_pid`, `Consultar*`, `InitAgregaNEW` | `INIT_PROC` and `no_hay_ningun_proceso`, in main and in dispatch threads |
| `EnviarCrear` ... `ReiniciarCrear` | `intentar_enviar_proceso`, by main, dispatch threads and the long term planner |
| `EnviarDesuspender` ... `ReiniciarDesuspender` | `intentar_desuspender_proceso` |
| `LargoDespierta`, `LargoElige*` | the long term planner, FIFO and PMCP |
| `CortoDespierta`, `enviar_a_cpu`, `ReadyAExec` | the short term planner, FIFO |
| `Sys*`, `Bloquear*`, `Liberar*`, `agregar_a_cola_por_IO` | the cases of `atender_kernel_cpu_dispatch` |
| `RespuestaFinalizar` ... `ReiniciarFinalizar` | `EXIT_PID` after its request is sent |
| `atender_cola_espera`, `FinIO`, `FinIOSusp` | device queue, `FIN_IO`, `blocked_a_ready` |
| `Timer*` | `manejar_tiempo_blocked` |
| `Respuesta*` of `RespuestasMemoria` | `atender_kernel_memoria` |
| `Memoria` | the memory: one request at a time, in order |
| `CpuBloqueante`, `CpuInitProc` | the system calls of `decode()` |

The constant `Carreras` says what the environment may do early or wrong. Each
member is something the code allows:

- `syscall`: a system call reaches the kernel before the short term planner has
  moved its process to EXEC (the context is sent first);
- `dump`: the answer to a dump is handled before the dispatch thread blocks the
  process (the dump is requested first);
- `timer`: an IO or a dump ends while the timer carries its process;
- `falla_dump`: the memory cannot open the dump file, and answers nothing.

A property is claimed with as many of them as it can stand. With `Carreras = {}`
the environment is merely not faster than two list operations of the kernel,
which is what the delays of the configuration files (hundreds of milliseconds
per instruction, per memory access, per IO) give in practice. `planif_dump`
and section 6 show what is lost when one of the first races happens.

Two things a reader would not guess. `TimerVence` may act on a *later* process
than the one it was started for: `EXIT_PID` frees the PCB and the allocator may
reuse its memory (`LeePid`). And an answer `RESPUESTA_SUSPENDER_PROCESO_KM`
ends the thread that reads the memory (`RespuestaDesconocida`), because the
kernel has no case for it and reads its payload as operation codes.

### CicloDeVida

The abstract specification: the seven states of `nombre_estado`, the arrows
between them, and a program counter that is kept except when a process blocks,
when it moves forward. `Planificacion` implements it through `EstadoDe`: a PCB in
the hand of a thread is still where it was taken from, except in `EXIT_PID`,
where nothing of it can be undone once it has left EXEC.

### Memoria

| State | In the code |
| --- | --- |
| `viva`, `tabla` | `lista_procesos`, and the frames in the tables of a process |
| `bitmap`, `ocupada` | the bitmap, `MEMORIA_OCUPADA` |
| `espacio` | `espacio_usuario`, by frame |
| `archivo`, `entradas` | the swap file, `procesos_en_swap` |
| `k`, `lista_marcos` | the thread that serves the kernel and the frames it has collected |
| `cpu` | each CPU together with the thread that serves it |
| `fase` | what the kernel has done with each process: its half of the protocol |
| `escrito` | history: the writes a program has made to each page |
| `conCache`, `sucios` | configuration, fixed by `Init`: is there a cache, and what `malloc` left in the bitmap |

| Actions | In the code |
| --- | --- |
| `CREAR`, `AsignarMarco`, `GuardarMarco`, `FinAsignacion` | `CREAR_PROCESO_KM` and `asignar_marcos_a_tabla` |
| `SUSPENDER`, `RecolectarMarcos`, `FinRecoleccion`, `CopiarASwap` | `suspender_proceso_a_swap` |
| `DESUSPENDER`, `LeerDeSwap`, `FinDesuspension` | `desuspender_proceso_de_swap` |
| `FINALIZAR`, `eliminar_proceso_en_memoria` | the `FINALIZAR_PROCESO` case of `atender_memoria_kernel`, and the function of that name |
| `PedirMarco`, `BuscarProceso`, `MirarMarco`, `GuardarMarcoCPU` | `REQUEST_FRAME`, from the CPU and back |
| `EscribirMemoria` | `REQUEST_WRITE`, with no cache |
| `EscribirCache`, `VaciarCache` | whole pages in and out of the cache |
| `BloquearOSalir` | the blocking calls of `decode()` and the flush they start |
| `Despachar`, `FinIO` | the kernel |

Abstractions, all of them over data:

- A table of several levels is the function from pages to frames, cut into
  leaves; there are enough levels for every page, as with the configurations of
  the repository.
- A CPU and the thread that serves it take turns, and are one actor.
- A TLB hit is not told from asking for the frame again.
- The cache has at most one dirty page, and no page is replaced before the
  flush. While a CPU flushes it gets no new context.
- A page holds zeros, blanks, or "what write number *v* to page *x* left".
- Freed memory that is read again is a nondeterministic choice (the tables of a
  process destroyed under a CPU). After a swapped process ends, when the entry
  is destroyed as if it were a `proceso_t`, the model follows the case where
  the memory survives.
- Requests that change nothing (`READ`, `REQUEST_INSTRUCTION`, dump), accesses to
  pages a program does not have, and the metrics, are left out.

### PaginasCPU

A step is one instruction or one decision of the kernel, as the CPU waits for
each answer it needs before it goes on.

| State | In the code |
| --- | --- |
| `tlb`, `cache`, `pid` | the two arrays and the process of the CPU |
| `config`, `desaloja` | the configuration file of the CPU; does the kernel interrupt (SRT) |
| `estado` | where the kernel has each process, as far as the CPU can tell |
| `tabla`, `espacio`, `archivo` | frames, their contents, and the pages in swap |
| `programa`, `ultima`, `uso` | history: what was written to each page, where last, and which page the TLB was last asked for |

| Actions | In the code |
| --- | --- |
| `ejecutar_read`, `ejecutar_write` | the functions of that name: all branches on hit or miss of TLB and cache, each with its updates |
| `actualizar_tlb`, `algoritmo_tlb_*`, `actualizar_cache`, `algoritmo_cache_*`, `victima_clock_m` | the functions of that name |
| `desalojar_proceso` | IO, DUMP_MEMORY and EXIT, with the flush of both arrays |
| `check_interrupt` | the process of the CPU changes and its entries stay |
| `Contexto`, `Desbloquear`, `Suspender`, `Desuspender` | a new context; a process wakes up, goes to swap and comes back to other frames |

Abstractions:

- A page is a row of cells and a string a program writes fills one. What strings
  do is kept: a page travels up to its first zero, and a WRITE to a page that is
  in the cache clears the rest of it.
- Pages are of 32 bytes, the size whose header `limpiar_header_si_existe` strips;
  with any other the page read comes four bytes late. No program uses the last
  four bytes, which the stripping loses.
- A READ at an offset copies the string of the page over itself; what would go
  past the end of the page, which is undefined, is a guard.
- The memory serves the flush before the kernel acts on the process. `Memoria` is
  the module without that assumption.
- One CPU; no interrupt is pending when a process blocks.

`ColaReemplazo` is a queue of keys and no ages: `PaginasCPU` implements it with the
entries of the TLB sorted by age, and `uso` as the key last used. That no two
entries ever have one age, and that ageing and resetting keep the order, is what
the refinement shows. A step of CLOCK-M may update the TLB twice for one page,
and is still one use.

### CortoPlazo

| State | In the code |
| --- | --- |
| `nuevos`, `ready`, `lista` | processes not yet admitted, `cola_READY`, and the lists only searched by pid |
| `pcb` | `programCounter`, `rafaga_anterior`, `estimacion_proxima_rafaga` |
| `corto` | `contador_replanificacion_corto`, or `.._corto_desalojo` with SRT: every post is to both |
| `plan` | the thread of the planner, what it carries, and the CPU it preempts |
| `listaCPU`, `running` | `lista_CPU` and `proceso_running`; the list is sorted, so its order is state |
| `desalojado` | `binario_desalojado` |
| `disp`, `intr` | the dispatch and the interrupt thread of each CPU, in the kernel |
| `cpu` | `pid`, `pc`, `esperar_contexto`, `interrupcion_pendiente`, `sem_contexto`, `sem_interrupt` of each CPU, and where its cycle is |
| `aCpu`, `aInt`, `deCpu`, `deInt` | two sockets for each CPU, both ways |
| `hecho` | history: instructions each process has executed |

| Actions | In the code |
| --- | --- |
| `CortoDespierta` | `corto_plazo_SJF_READY`, `corto_plazo_SRT_READY`: estimate and sort |
| `buscar_cpu_disponible`, `buscar_cpu_disponible_desalojo`, `ConfirmarDesalojo`, `ReadyAExec` | `enviar_a_cpu`, `enviar_a_cpu_desalojo` and what follows |
| `Sys*`, `LiberarPorIO`, `BloquearPorIO`, `Exit*` | `atender_kernel_cpu_dispatch`, one thread per CPU |
| `SysInterrupt`, `DesalojadoAReady` | `atender_kernel_cpu_interrupt`, one thread per CPU |
| `RecibeContexto`, `RecibeInterrupt` | the two listening threads of the CPU, which write its globals at any moment |
| `CpuEspera`, `CpuEjecuta`, `CpuVacia`, `check_interrupt`, `CpuAguarda`, `CpuLimpia` | the loop of `main`, `decode`, and `check_interrupt` |

`mutex_cpus` is held from `desaloja` to `ConfirmarDesalojo` (`MutexTomado`), and
`liberar_cpu` waits for it. Time is not modelled: a process ran for any of the
times of `Rafagas`, in quarters of a unit so that `ALFA` can be a fraction. The sort
of `lista_CPU` compares what lies behind each node, so it leaves any order.

The members of `Carreras` here:

- `desalojo`: a process makes a blocking call between the decision to preempt it and
  the moment its CPU looks at the interrupt;
- `contexto`: the interrupt overtakes the context of the process it is for (two
  sockets, two threads);
- `bandera`: it arrives between `sem_interrupt` and the reset of the flag;
- `syscall`: as in `Planificacion`.

### ColaIO

| State | In the code |
| --- | --- |
| `lista_IO`, `proceso` | the nodes, in order of connection, and `proceso_en_ejecucion` (which is 0 iff `esta_ocupado` is false) |
| `cola`, `binario` | `lista_procesos_en_cola`, `binario_IO` |
| `barrido` | the thread of `atender_cola_espera`: between which two of its three looks at the devices (`en`), at which index of the queue (`i`), and `nodo_actual` (`x`), read from the queue at the head of the loop and used after it |
| `mutex_ios` | the device whose thread holds it while it ends processes |
| `sys` | the dispatch thread of each process in its call |
| `hilo`, `aDev`, `deDev`, `conexion` | the thread of each device, its sockets, and the device |
| `estado`, `quedan` | where the kernel has each process, and the calls it may still make |

| Actions | In the code |
| --- | --- |
| `SysComienzoIO`, `exec_a_blocked`, `agregar_a_cola_por_IO` | the case of that name in the dispatch thread |
| `BarridoDespierta`, `BarridoExiste`, `BarridoLibre`, `BarridoOcupa` | one pass of `atender_cola_espera`, with `existe_io`, `hay_alguno_libre_io` and `ocupar_io` |
| `conectar_io`, `CreaHilo` | `manejar_conexiones_ios` |
| `Termina`, `SeCae` | the device: it ends an IO, or goes, in the middle of one or not |
| `AtiendeFin`, `liberar_io` | `FIN_IO` |
| `Desconecta`, `ExpulsaDeLaCola`, `SacaDispositivo` | `eliminar_nodo_io` |

`Entornos` says which devices are connected from the start, which come later, which
may go, and whether they may go in the middle of a pass (`carrera`) and even take an
entry out of the queue there (`quita`). The last is what the code does:
`eliminar_nodo_io` has `mutex_ios` and not the mutex of the queue. The pass then goes on
with the entry it had in hand and removes by index whatever is there (`SinEntrada`). The
entry taken out is freed: the pass reads it as it was or as rubbish (`Basura`), or the kernel
falls there, which is a behaviour that stops. `SinBarrido` is the bound that keeps the
two apart in the environments without `quita`, where the other properties are claimed.

`ocupar_io`, its message and the `list_remove` after it are one step, and so are the end of a
process whose device is gone and the removal of its entry. `EXIT_PID` is one step. A
process that comes back from its IO is at once able to ask for another.

### TablasPaginas and TablaPlana

The state is one process (`tabla_raiz`, a tree of records; `cantidad_paginas`), the
`bitmap`, and the frames `ajenos` that other processes hold. An action is a whole
request of the memory: `Crear`, `REQUEST_FRAME`, `SUSPENDER`, `DESUSPENDER`,
`MEMORY_DUMP`, `FINALIZAR`. `salida` is what the last request answered: the list of
frames, in order, or a page and its frame.

The operators are the routines: `crear_tablas_proceso`, `asignar_marcos_a_tabla_rec`,
`recolectar_marcos_suspender`, `recolectar_marcos_para_dump`,
`obtener_marco_de_pagina`, the descent of `REQUEST_FRAME` with the range check of each
level (`EnRango`), and `entrada_nivel_X`, which the CPU computes. Each one keeps the
arithmetic of its function.

`TablaPlana` is an array from pages to frames: free frames are given lowest first
and in page order, lists come in page order, a page out of range has no frame.
`ImplementaTablaPlana` says that the tree is that array, cell by cell and answer by
answer. The order of the lists matters: the swap file is written and read back by it.

## 3. Runs

| Run | Question | Instance |
| --- | --- | --- |
| `planif_seguridad` | is a PCB ever lost or filed twice, a CPU shared or left marked, a planner left with a process that is no longer in its list, is every step an arrow of the life cycle? | 2 CPUs, one connecting late; 3 processes of 1, 2 and 0 pages over 2; PMCP; all of `Carreras` |
| `planif_progreso` | do lists, memory and devices agree, does a planner sleep on a process it could serve, does every process end? | 1 CPU, 3 processes of 1 system call over 1 page; FIFO; fair |
| `corto_progreso` | do kernel and CPU agree on who executes, does a process go on where it was, is the shortest served, does the kernel stay up, does every process end? | SJF and SRT; 1 CPU; 3 programs, 2 of them with an IO; bursts of 2 lengths; fair |
| `corto_carreras` | is a PCB lost or filed twice, or a confirmation left over, when a preemption crosses anything? | SRT; 2 CPUs; 3 programs, one with an IO; all of `Carreras` |
| `io_cola` | has every blocked process one request, does a pass remove the entry it has served, is what a device does what the kernel noted, does anybody wait for a free device, does everyone come back? | 3 processes with 4 calls, 4 environments: a late device of 2 names; 2 devices of a name that go; the only device of a name that goes, and a late one, at any moment; the only one of a name that goes and takes entries out under the pass (for `ColaTypeOK` and `AnotadoLoQueHace`); fair |
| `mem_datos` | does data survive suspension, is the count of frames exact, is a CPU answered, does a frame ever get two owners, the late flush of a cache included? | 2 CPUs; without a cache 4 processes of 2, 1, 1 and 0 pages over 2 frames; with a cache 2 of them, of 2 and 1 pages; clean and dirty bitmap |
| `tablas_plana` | do all the routines of the tree see one array? | 4 entries and 1 level, 3 and 2, 2 and 3; up to 5 pages over 5 frames, one of which others may hold; pages asked for up to 8 |
| `cpu_paginas` | do TLB and cache stay true to the memory, is the last write kept, is the order of replacement the promised one? | 7 configurations; 2 processes of 3 and 1 pages over 4 frames; a process interrupted except with CLOCK |
| `planif_dump`, `corto_victima`, `io_desconexion`, `cpu_victima` | expected violations: see section 6 | the smallest that shows it |

Bounds:

- `MaxPid`, the processes ever created. Two compete for one thing; the third is
  the one passed over, and is needed for a queue in which order matters.
- `MaxPc`, the system calls of a program before its EXIT. One is enough for a
  process to block, be suspended and come back, and with its EXIT to compete for
  a CPU it has just given away.
- `Capacidad` is always less than what the processes need together, so that
  admission is refused, and swapping happens.
- `MaxSwap` and `MaxEntradas` bound the swap file and its entries. Three pages
  and two entries let a process go out, come back and go out again behind
  another, which is where places in the file could be confused.
- `MaxEscrituras`, writes to each page: one tells data that survived from data
  that did not.

- `Configuraciones` of `cpu_paginas`: the replacement parts of the files of `src/cpu`,
  with three entries of TLB where they have four. Four pages of two processes are
  one more than the TLB holds and two more than the cache.
- `MaxInstrucciones`, five: enough to fill a TLB of three, use an entry again,
  replace one and use the result; or to dirty two pages, have both written
  back by replacement, and come back to the first.
- `CantCeldas`, two: the start of a page and what lies behind a zero. `Datos`, one
  string: what is lost shows as a zero.

- `Programas` and `Cortos` of `corto_*`: with a burst of 1 a process that comes back
  from its IO is shorter than the initial estimate, 2, and preempts; with one of 3
  it does not. A program with an instruction after its IO, and one with two
  before its EXIT, are where a lost or repeated pc shows. Two CPUs and all the races
  need the shorter `Cortos`.
- `Entornos` and `Pedidos` of `io_cola`: two processes for one device are the least that
  wait; a second call of one of them meets what its first has left behind; three are
  needed for the one behind the first of the queue.
- The tables of `tablas_plana` hold 4, 9 and 8 pages, so that a tree of two and of three
  levels has a part that is full, one half full and one absent. `MaxAjenos`: one frame
  of another process is enough for frames not to be consecutive, and for a
  creation of five pages to fail half way.

The liveness run of `Planificacion` has one CPU and one call per program: with two of either the
fair graph passes some millions of states. The safety runs cover those instances
instead, and the invariants of the theorems hold at any size.

`CHECK_DEADLOCK FALSE` is in every configuration: the system stops when its
programs have ended, and the bounds on processes and on swap stop it too.

Symmetry is used in `mem_datos` only, where no operator chooses among CPUs, nor among
processes of one size. Its CONSTRAINT, `DosConCache`, keeps the states with a cache to
two processes. In `Planificacion` pids are numbers given in order, and
the CPU table is a list: neither is symmetric.

Every property of a passing run has a mutant in `PROJECT.json`: a plausible bug in
one definition (a forgotten `sem_post`, a missing `sem_wait`, a PCB left in its
list, a frame not marked) that makes the run fail.

## 4. Fairness

`Justicia` is weak fairness, per thread: a thread that can go on does. It is what
a preemptive scheduler gives to pthreads, as no thread of the kernel spins. It
also covers the environment: what was sent is delivered, programs end, timers
expire, devices and the memory answer. Weak fairness is enough because a thread
that can take its next step is not disabled by others, except in the waits on the
shared semaphores, where only one token and one waiter matter at the sizes checked.
No fairness is asked of `INIT_PROC` calls nor of CPUs that connect late: a program
need not create others.

`CortoPlazo` has the same: weak fairness for the planner, for the dispatch and the
interrupt thread of each CPU, and for the three threads of each CPU. `ColaIO` needs less:
that the threads of the kernel and the devices, taken together, do not stop while one
of them can go on. No process is obliged to ask for an IO there, and no device to
come or to go.

## 5. Proofs

TLAPS checks the theorems for any number of processes, CPUs, devices, frames and
pages, any sizes, both admission algorithms and every race. They assume the
conditions on the constants, `ConstantesOK`, `MemoriaConstantesOK` and those of the
other modules: sizes are naturals, names are distinct, NULL is not a process. For
`PaginasCPU` there is one more, `PaginasEntranTodas`: the frames are enough for the
pages of its processes at the start, as the memory admitted them all.

**`Planificacion_proofs`.** The invariant is

    IInv == TypeOK /\ UnSoloLugar /\ PunteroVigente /\ Arranque

- `UnSoloLugar`, that a PCB is in one list or in one hand, is the goal. It is not
  inductive: the long term planner takes the process it carries out of NEW, and if
  it were no longer there, the planner would then add a second copy to READY.
- `PunteroVigente` says that what a planner carries is still in its list. It holds
  because only the planner takes processes out of its lists; to show that
  somebody else's removal does not touch *this* process one needs that it is in
  one place only, so the two are proved together. The exception is INIT_PROC,
  which calls the same `SacarDeNEW` for a process it never put in NEW: there the
  removal does nothing, by `UnSoloLugar` again.
- `Arranque` says that the planners are off until main has ended its own INIT_PROC:
  without it starting them could drop the process a planner carries.

A step that moves a PCB is reduced by the lemmas `Mudanza`, `SinMudanza`, `TomaMano`,
`SueltaMano` and `ManoACola` to what one place loses and another gains. `Listas`
has what `RemoveFirst`, `Append`, `Min` and a sort do to a list without
repetitions.

**`Memoria_proofs`.**

- `MemoriaTypeOK` is inductive as it stands: it includes that a page or a frame a
  thread carries from one step to the next exists.
- `MarcosExclusivos` is inductive given the types. A step either takes frames out
  of tables and hands (`NadieGana`), or hands out one that was not marked, and
  what is in a table or a hand is always marked. It holds with a cache, where a
  flush asks for frames of processes that the other thread is suspending,
  resuming or destroying, and for whatever `malloc` left in the bitmap.
- `MarcoRespondido`, that no CPU without a cache waits for ever for a frame, rests
  on the protocol with the kernel. `InvVivos` is three parts: processes not yet
  ended are listed (`Vivos`), the thread of the kernel is busy with a process in
  the phase of its request (`Pedido`), and what a CPU runs is in EXEC and on no
  other CPU (`EnCpus`). The last is what makes the system call of one CPU harmless
  for another.

**`PlanificacionCpu_proofs`.** Over `IInv`, the invariant of the table of CPUs is

    CpuInv == MarcaConsistente /\ CpuConsistente /\ BloqueoConsistente /\ PcAvanza

- `MarcaConsistente`: a node is marked for one process only, and one that was
  dispatched and has not been filed in EXIT. `UnaCpuPorProceso` and `SalidaLiberaCpu`
  follow. It is not inductive: `liberar_cpu` looks for a pid and frees the first node
  that has it, so one must know that a handler carries the process marked on *its*
  node.
- `CpuConsistente` says that: what a CPU runs, its last message and its handler are of
  the process marked, and only one of the three at a time. A handler that has freed
  its CPU and has still to block (`PorBloquear`) is no longer marked;
  `BloqueoConsistente` says that no other has the same process.
- `PcAvanza` is for the life cycle: the pc that arrives with a system call is past the
  one in the PCB.

`SinFichasPerdidas` counts tokens. At any moment

    Fichas >= PorDespachar  or  Fichas >= number of free CPUs

where `Fichas` are the semaphore, the token in the hand of the planner and one for
each handler that has freed its CPU and will post when it blocks its process. A
process that comes to READY, or a CPU that is freed, brings its token; a token spent
finds READY empty, or every CPU busy, or serves one of each. The
last kind of token is the one that the race of `"syscall"` loses, so the theorem
says that there is no such race: the hypothesis is about the environment, and the
property fails without it (section 6).

`CicloDeVidaCumplido` is the refinement. By `UnSoloLugar` the state of a process is that
of the place it is in (`EstadoPorLugar`); a step that leaves every other process in its
place (`Aparte`) changes at most one state (`CicloMueve`), and each action that moves a
PCB is matched with an arrow. Creation also needs `Arranque`, and the arrows that block
need `PcAvanza`.

`NadieBloqueadoSinMotivo` proves `BloqueadoConMotivo` from `MotivoInv`, which is `Pendiente` made
inductive. A thread in its second section (`fin_susp`) is a reason only for a process
it can still find, in SUSP_BLOCKED; a device that is in its first section notes the
process it works for; a handler that is to block its process for a dump has the
request in one of the sockets of the memory. `DejaGrupo` reduces the steps that move a blocked
process to one that leaves the lists of the blocked, or goes from one to another. The
hypothesis `SinDemoras` excludes the races `"dump"` and `"timer"` and the dump that is not
answered: with each of them the property is false (section 6, `planif_dump`,
`memoria_kernel.c:199`). The race `"syscall"`, several CPUs and several devices are allowed.

`LosSuspendidosSueltan` proves `SuspendidoSinMarcos` from `SuspInv`, which follows the requests to
the memory and their answers through the sockets.

- `Turno`: of the threads that wait for one kind of answer, one waits; for it there is
  one request, or one answer, or one token, and about its process. When nobody waits
  there is nothing.
- `Terminales`: a process whose end is under way has no CPU, call or handler that could
  still move it, and is nowhere else (`TerminalQueda`).
- The order of messages (`SinTras`, `Cubierto`): no suspension of a process comes after
  the request to bring it back, and a creation that comes late is followed by the
  suspension.
- `Suspension`: a suspended process is on its way out of the memory (its timer, then its
  request), or out of it (no frames, one entry in swap), or on its way back
  (`Concedido`: the memory said yes and the planner has not filed it in READY yet).

There may be any number of CPUs and devices and every race but `"timer"`. `Paginados` says
that processes have pages: the memory answers twice to bring back an empty one
(`memoria_swap.c:151`, `memoria_kernel.c:136`), and the second answer is taken for that of the next.

`LaSalidaLiberaMemoria` and `LosEjecutablesEnMemoria` add the `Turno` of FINALIZAR and that of
CREAR (`SalidaInv`, `AltaInv`): who is in `Acabado` (the memory said yes to its end) holds no
frames and no creation of it is on its way; who is in `EnMemoria` (READY, BLOCKED, a CPU, a handler,
or created and not filed yet) is neither suspended nor ending, so nobody takes its
frames. The flag and the semaphore of an answer are shared by all the threads, so both
theorems assume that no two wait for that answer at once (`[]UnaSalida`, `[]UnaAlta`): with
several CPUs they may, and then the properties fail (section 6). `LosEjecutablesEnMemoria`
also excludes `"syscall"`: a process that asked to end before it was filed in EXEC would be
both dispatched and ending.

`ConUnaCpuLaMemoriaAlcanza` shows that with one CPU those two hypotheses always hold.
`SolaInv`: before main has started the planners no process is on a CPU; and an INIT_PROC
that found NEW empty finds it so until it has its answer, because only itself adds to NEW
and what the planner creates stays in NEW until it has its own.

**`CortoPlazo_proofs`.** The invariant is

    IInv == TypeOK /\ PcEnPrograma /\ PunteroEnReady /\ UnSoloLugar /\ UnDesalojo

- `OrdenadaPropiedades`: `list_sort` by estimate gives the same processes, shortest first;
  it is proved from the cardinalities of the sets of predecessors, with no induction.
- `PunteroEnReady` is for `UnSoloLugar` what `PunteroVigente` is in `Planificacion`.
- `UnDesalojo` makes `UnaConfirmacion` inductive: interrupts, answers and flags on their
  way are at most one together with the semaphore, and of the CPU the planner waits
  for. That is why one semaphore does for all CPUs.
- `PcEnPrograma`: every pc that travels is inside its program. Without it the types of
  a fetch do not hold.

`AcuerdoConLaCpu`, `ContinuaDondeIba`, `BloqueadoMientrasIO` and `KernelEnPie` are broken by
the races of the environment (section 6), so they are claimed and proved for
`Carreras = {}`, any number of CPUs and any programs. `KernelEnPie` also needs a CPU
connected at the start: with SRT the planner reads the first of an empty list. The
invariant is `IInv` and

    AInv == Charlas /\ Quietas /\ Marcadas /\ Bloqueos /\ Guardado

- `Charlas`: what a CPU does, its entry in the kernel and what the sockets between them hold
  have one of a few forms (`Conversa`): nothing, a context on its way, a context that came,
  a system call asked, a burst that runs, a call that ends it; and, of the CPU the planner
  waits for, an interrupt on its way or a process given back.
- `Quietas`: while the planner preempts, no CPU makes a system call or has one served. This is
  what `Carreras = {}` says of the guards, carried to the states in between: without it
  the thread of the interrupt looks for a process that is no longer in EXEC.
- `Marcadas`: the process a CPU is marked with is in EXEC or on its way to it, and of
  no other CPU. `Bloqueos`: a process is in BLOCKED exactly when a device has its request, but
  for the one that a call is just moving.
- `Guardado`: the PCB of a process that no CPU has keeps the pc of its next instruction.

`NadieMasCorto` has two halves. That a process in READY finds no CPU free when the
planner rests holds for any number of CPUs, with SJF and with SRT (`NingunaCpuOciosa`), and is
an argument about tokens, `FichasBastan`: those posted, those of the threads that have
freed a CPU and not yet blocked its process, and the one in the hand of a planner
that looks for a CPU are as many as the CPUs it may still give, or as the processes that wait.
The CPU of a preemption under way is not counted, as the planner keeps it. With no CPU free
the planner drops a token; it can, as none is needed then. `ConDueno`, that the
process about to leave READY is marked in a CPU, rests on the race `"syscall"` being away.

That none in READY is shorter than what executes needs, with SRT, one CPU: with two the
victim is any of them (`corto_victima`). `Menores` says that, with no token left, what the
planner carries, or what executes once it rests, was compared with everything in READY;
whatever enters READY later brings a token, and an estimate only changes when the
planner takes a token or in a process that is in no list. `NadieMasCortoSinCarreras` joins
both: SJF with any CPUs, or SRT with at most one.

**`ColaIO_proofs`.** The invariant is

    IInv == /\ ColaTypeOK /\ NombresOK /\ Charlas /\ Tranquilo
            /\ (~entorno.quita => UnLugar /\ Vigente)

- `Charlas` lists what the two sockets of a device may hold for each place of its thread
  and for the process noted in it; `AnotadoLoQueHace` follows.
- `UnLugar`: a request is in its own call, in the queue or in one device. With
  `Tranquilo`, that the pass and the end of a device exclude each other unless the
  environment has that race, it gives `UnPedido`.
- `Vigente`: the entry in the hand of a pass is the one at its index; with one entry for each
  process (`UnLugar`) it gives `QuitaLaSuya`. Both are false when a device takes an entry out
  under the pass (section 6), and are for the environments without `quita`. The types and
  `AnotadoLoQueHace` are proved for all.

`NadieOlvidado` proves `NadieEsperaPorUnoLibre` from `Justo`, which speaks of the runs without
disconnections. The free devices and the entries of the queue are the two sides of a
graph, with an edge where the names agree: a process that waits for a device it could
have. `FichasAlcanzan` says that a set of devices and processes no larger than the
number of tokens touches every edge. An entry that is added, or a device that is freed,
brings a token and one vertex; a device that is taken, or an entry served, leaves with
its edges. With no token left there is no edge. During a pass, which has taken a token,
the bound is one more for all, and the same for what the pass has gone by
(`OcupaUnoLibre`: the entry it stopped at has a free device).

**The count and the data of the memory** (`Memoria_proofs`, `MemoriaDatos_proofs`).
`ContabilidadExacta` and `DatosPreservados`
are claimed, and proved, in the configuration `Sano` only: no cache, a bitmap that
starts clean, a memory of whole pages. Outside it the code breaks them:
`REQUEST_FRAME` takes frames without counting them, a failed creation keeps those it
took, and a flush writes to an address that may be another process's by then.

- `Cuentas`, for the first: marked frames are those of tables and the one on its way to a
  table; processes in memory have all theirs; a request under way has a frame for each
  page it lacks (`Alcanza`: admission compares with a count that is exact); a suspended
  process has its entry of the swap file, without which its end would discount
  frames it has not got.
- `Datos`, for the second: a page that was written can be found, in its frame, in the
  list of frames that `recolectar_marcos_suspender` has freed and not yet copied, or in
  its place of the file. Nobody writes over it: the frames of the list are free
  (`ListaLibre`) and only the thread of the kernel hands frames out, the places in the
  file do not overlap (`Lugares`), and a CPU writes to the frame of its page
  (`UsaElSuyo`).

**`PaginasCPU_proofs`.** The invariant is

    IInv == TiposCPU /\ TiposMemoria /\ TiposHistoria /\ Residentes /\ EntradasBien

- `EntradasBien` is the goal, `EntradasVigentes` and more: entries are of processes
  in READY or in EXEC (`Bien`), a free entry is clean, and without interruptions the
  cache is of one process. That is what makes a suspension harmless: it takes the
  frames of a blocked process, and a process that blocked left no entry.
- `Residentes`: a process not suspended has a frame for each page and no frame is of two
  pages. Without it a victim written to its frame could overwrite another page.
- `CacheTras` describes an access through the cache, and `EntraEnTLB` an update of the TLB,
  as one entry that changes and the rest left as they were; READ and WRITE use only that.

`UltimaEscrituraLlega` follows from `Llegan`, which says the same entry by entry: an access
moves the last write of a page from its entry to its frame only when the entry is the
victim or is flushed, and a suspension moves it from the frame to the file and back.

`TLBEsCola` is the refinement. No two entries in use have one time (`Ordenada`), so the times are a
total order, in which each place of the queue has exactly one holder (`Rangos`, by
cardinalities and with no induction). An update then leaves every entry older than the
same others (`ColaQueda`), puts a new one at the end (`ColaAgrega`), or moves one there
(`ColaMueve`); that the victim is the one with nothing older makes it the head.

**Only model-checked:**

- `AdmisionSinEspera` of `Planificacion`: it holds with one CPU, programs of one call and
  the environment not too fast, and section 6 shows it broken otherwise, so it is no
  theorem of the specification.
- All of `TablasPaginas`: see below.

**Out of the prover's reach:** liveness under fairness (`TodosTerminan`, `TodosSalen`,
`TodosVuelven`) and `ENABLED`, which TLAPS has no rules for here; induction over data,
whose theorems take an operator as a parameter; RECURSIVE operators. Of the modules
here only `TablasPaginas` has those, because a tree of any depth asks for them: it
stays with TLC.

## 6. What the checks found

Four runs state what a comment of the code says and show that it does not hold;
`findings` quotes the lines.

- `planif_dump`: the dump is requested before the process is blocked. When the
  answer is handled first the process blocks with nobody left to wake it.
- `corto_victima`: the CPU to preempt is chosen by a sort that compares the nodes of the
  list as if they were PCBs. With two busy CPUs the one with the shorter process may
  be preempted.
- `io_desconexion`: when the last device of a name goes, two threads end one process of
  its queue each; a third process waits for a device that no longer exists.
- `cpu_victima`: CLOCK compares page numbers and not pids before it writes a dirty
  victim back. After an interruption, the page of the same number of the process
  before is dropped.

Others are seen by changing the constants of a passing run, as said of each (without
fairness the state in which the property fails comes sooner); no run is kept for them.

- `planif_progreso` with `Carreras = {"timer"}`: a timer carries the process between two
  lists, and the end of its IO finds it in neither (`planificadores.c:740`).
  `BloqueadoConMotivo` fails.
- `planif_progreso` with `MaxPid = 4`, `MaxPc = 2`, both CPUs and `Capacidad = 3`: two
  dispatch threads create processes, share one flag, and a process the memory refused
  is added to READY (`planificadores.c:378`). `EjecutableEnMemoria` fails.
- `planif_progreso` with `MaxPid = 2`, `MaxPc = 2` and sizes `<<0, 1>>`: resuming a process of
  no pages gets two answers, an error and an OK (`memoria_swap.c:151`,
  `memoria_kernel.c:136`); the second is taken for that of the next process, which becomes READY while still in swap. `EjecutableEnMemoria` fails.
- `planif_progreso` with both CPUs: two processes end at once, the thread of one takes the
  answer meant for the other (one flag and one semaphore, `planificadores.c:709`), and
  files its process in EXIT before the memory has freed it. `SalidaLiberaMemoria`
  fails. `AdmisionSinEspera` too: the reset that follows one answer erases the next, whose
  process never ends.
- `SinTrabajoPerdido` in `planif_seguridad`, with `MaxPc = 2`, one CPU and `Carreras =
  {"syscall"}`: the IO of a process is handled before it is in EXEC, `exec_a_blocked`
  finds nothing to move and does not post, and a process stays in READY with the CPU
  free until some other event posts (`planificadores.c:432`). With one system call per
  program the property holds there by luck, so it is a property of `planif_progreso`.
- `QuitaLaSuya` with `Contains(cola, barrido.x)` in the place of `~entorno.quita`, on
  `QuitaBajoElBarrido` with four processes: the end of a device takes the first entry out of
  the queue while the pass has the second in hand (`kernel_manejo_ios.c:95`, under another
  mutex). The pass ends the process of the second and removes, by index, the entry that has
  come to that place, or none. The ended process stays in the queue, and that of the entry
  removed stays blocked with no request anywhere. The condition leaves out the traces in
  which the entry in hand has been freed.
- `corto_progreso` with `"desalojo"`: a preempted process blocks first. The thread of the
  interrupt finds it nowhere and reads a NULL (`kernel_cpu_interrupt.c:17`), or takes it
  out of BLOCKED while a device has its request: `AcuerdoConLaCpu`,
  `BloqueadoMientrasIO`, `ContinuaDondeIba` and `KernelEnPie` fail.
- `corto_progreso` with `"contexto"` or `"bandera"`: the interrupt is dropped and the
  planner waits for ever with `mutex_cpus` held: `TodosSalen` fails. With `"contexto"` the
  safety properties fail as well: its process blocks while the planner waits.
- `corto_progreso` with `"syscall"`: a call is handled before its process is in EXEC, and
  its pc is lost: `ContinuaDondeIba` and `BloqueadoMientrasIO` fail.

And what the code does that no property speaks of:

- The time a preempted process ran is subtracted from its estimate
  (`kernel_cpu_interrupt.c:20`) and lost at the next token, when `aplicar_SFJ` computes
  all of READY from scratch; `estimado_rafaga_anterior` is never assigned after
  `INIT_PROC`. So `NadieMasCorto` is about full estimates, and about a weighted sum of
  the last burst and the initial estimate.
- `enviar_a_cpu_desalojo` unlocks `mutex_cpus` without having it (`planificadores.c:581`).
- `coincide_nombre_io` looks only at the first device of the name, which may be the one
  that goes: the first of the queue can be ended although another device of that
  name is connected.
- A device that goes in the middle of a pass may leave `ocupar_io` without one; the
  request is sent to descriptor -1, its entry is removed, and the process stays
  blocked. `UnPedido` allows for that only in the environment where it may happen.
- The queue is not FIFO per name: a process that comes while a token is on its way
  may be served before the one behind the first.
- `ENTRADAS_POR_TABLA ^ CANTIDAD_NIVELES` pages are told apart. With `corto.config` that is
  16 pages of 64 bytes for a memory of 4096: a bigger process has pages that share cells.
- `asignar_marcos_a_tabla_rec` reads one entry past the end of `subtablas` before it
  asks whether pages are left (`manejo_memoria.c:146`); `MEMORY_DUMP` of a process that
  is not listed reads a NULL (`memoria_kernel.c:190`).

`UltimaEscrituraLlega` is narrower than one would wish because of what the code
does with pages as strings, and reads as a description of it: without a cache the
memory holds every write; with one, an earlier write to a page is lost when a
later one finds it in the cache, and a write past the start of the page reaches
the memory only if no zero comes before it.

## 7. Not modelled

- GOTO and the parsing of instructions; the file of instructions in the memory.
- An interrupted process that goes on in another CPU, with what it left in the TLB and the
  cache of the first: `PaginasCPU` has one CPU and `CortoPlazo` no pages. A context that
  arrives during a flush is in `CortoPlazo` for the pc and the semaphores only.
- Suspension and preemption together.
- Pages past what the tables can tell apart, and frames read past the end of an array.
- The steps inside `ocupar_io` and the `list_remove` after it, when a device takes an entry out
  of the queue between them; what the allocator does with a list changed by two threads
  at once.
- `utils`: sockets are reliable and ordered. Configuration files, logs, metrics.
- The disconnection of a CPU, which in the kernel only ends a thread.

## 8. Plan

Done: `Planificacion`, `CicloDeVida`, `Listas`, `Memoria` and their proofs, in that
order because the lists of the kernel are what everything else rests on; then
`PaginasCPU`, `CortoPlazo`, `ColaIO`, `TablasPaginas` and `TablaPlana`; then the proofs about
`CortoPlazo`, `ColaIO`, the count and the data of `Memoria`, the table of CPUs, the
tokens, the blocked, the frames and the life cycle in `Planificacion`, `PaginasCPU`, the talk of kernel
and CPU and the tokens in `CortoPlazo` without races, and the tokens of `ColaIO`. Next:

1. Composition: `Memoria` refines the `Memoria` action of `Planificacion`.

Invariants are written as conjunctions of named parts, and no module that is to be
proved about uses RECURSIVE operators.
