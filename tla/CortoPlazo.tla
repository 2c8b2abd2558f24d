----------------------------- MODULE CortoPlazo -----------------------------
(***************************************************************************)
(* The short term scheduler (kernel/src/corto_plazo.c): the planificador   *)
(* sends a READY process to the CPU, waits for it to come back, and acts   *)
(* on what it comes back with; the quantum thread it starts for each       *)
(* dispatch (kernel/src/interruptor.c) interrupts the CPU when it expires. *)
(***************************************************************************)
EXTENDS KernelEstado

Plan == "planificador"

(* ejecutar_proceso: EJECUTAR_PROCESO to the CPU, and the quantum thread.  *)
EjecutarProceso(p) ==
    /\ CambioEstado(p, "EXEC")
    /\ a_cpu' = Append(a_cpu, p)
    /\ reloj' = IF quantum[p] # -1 THEN p ELSE Nadie

(* What actualizar_contexto found wrong, or the end of the process. *)
PlanEnviarAExit(motivo) ==
    /\ EnviarAExit(actual[Plan], motivo)
    /\ Va(Plan, "cierre")
    /\ UNCHANGED <<quantum, vReady, a_cpu, irq, reloj, vIface, vRec, mx_recurso,
                   mx_PCB, otro>>

-----------------------------------------------------------------------------
(* The queue_pop, priority queue first. *)
PlanToma ==
    /\ EnLugar(Plan, "espera")
    /\ sem_cola_ready > 0
    /\ sem_cola_ready' = sem_cola_ready - 1
    /\ IF cola_priority_ready = <<>>
       THEN /\ actual' = [actual EXCEPT ![Plan] = Head(cola_ready)]
            /\ cola_ready' = Tail(cola_ready)
            /\ UNCHANGED cola_priority_ready
       ELSE /\ actual' = [actual EXCEPT ![Plan] = Head(cola_priority_ready)]
            /\ cola_priority_ready' = Tail(cola_priority_ready)
            /\ UNCHANGED cola_ready
    /\ Va(Plan, "pausa")
    /\ UNCHANGED <<vPCB, mx_PCB, vNew, vExit, vProg, vPausa, vRec, mx_recurso,
                   vIface, vCpu, memoria, otro, vElim, vPlan>>

(* check_pause, after the process has been chosen. *)
PlanPasaPausa ==
    /\ EnLugar(Plan, "pausa")
    /\ SinPausa
    /\ Va(Plan, "mx_PCB")
    /\ UNCHANGED <<vPCB, mx_PCB, vNew, vReady, vExit, vProg, vPausa, vRec,
                   mx_recurso, vIface, vCpu, memoria, actual, otro, vElim, vPlan>>

(* It is no longer READY: somebody ended it while it was in the queue. *)
PlanDescarta ==
    /\ EnLugar(Plan, "mx_PCB")
    /\ Libre(mx_PCB, actual[Plan])
    /\ estado[actual[Plan]] # "READY"
    /\ VuelveAEsperar(Plan)
    /\ UNCHANGED <<vPCB, mx_PCB, vNew, vReady, vExit, vProg, vPausa, vRec,
                   mx_recurso, vIface, vCpu, memoria, otro, vElim, vPlan>>

(* Mutant: the state is not looked at again under mx_PCB. *)
PlanDespachaSinMirar ==
    LET p == actual[Plan] IN
    /\ EnLugar(Plan, "mx_PCB")
    /\ Libre(mx_PCB, p)
    /\ EjecutarProceso(p)
    /\ Va(Plan, "recibe")
    /\ UNCHANGED <<quantum, retorno, mx_PCB, vNew, vReady, vExit, vProg, vPausa,
                   vRec, mx_recurso, vIface, de_cpu, irq, memoria, actual, otro,
                   vElim, paquete>>

PlanDespacha ==
    LET p == actual[Plan] IN
    /\ EnLugar(Plan, "mx_PCB")
    /\ Libre(mx_PCB, p)
    /\ estado[p] = "READY"
    /\ EjecutarProceso(p)
    /\ Va(Plan, "recibe")
    /\ UNCHANGED <<quantum, retorno, mx_PCB, vNew, vReady, vExit, vProg, vPausa,
                   vRec, mx_recurso, vIface, de_cpu, irq, memoria, actual, otro,
                   vElim, paquete>>

(* recibir_paquete(socket_cpu_dispatch), with mx_PCB released. *)
PlanRecibe ==
    /\ EnLugar(Plan, "recibe")
    /\ de_cpu # <<>>
    /\ paquete' = Head(de_cpu)
    /\ de_cpu' = Tail(de_cpu)
    /\ Va(Plan, "actualiza")
    /\ UNCHANGED <<vPCB, mx_PCB, vNew, vReady, vExit, vProg, vPausa, vRec,
                   mx_recurso, vIface, a_cpu, irq, memoria, actual, otro, vElim,
                   reloj>>

(* Mutant: cancelado without the test tiempo_restante > 0. *)
CancelaRelojSinPiso(p) ==
    /\ reloj' = Nadie
    /\ IF quantum[p] # -1 /\ reloj # Nadie
       THEN \E resto \in -2..quantum[p] : quantum' = [quantum EXCEPT ![p] = resto]
       ELSE UNCHANGED quantum

(* pthread_cancel and pthread_join: a quantum thread still asleep runs     *)
(* cancelado, which leaves what remains of the quantum, down to 0.         *)
CancelaReloj(p) ==
    /\ reloj' = Nadie
    /\ IF quantum[p] # -1 /\ reloj # Nadie
       THEN \E resto \in 0..quantum[p] : quantum' = [quantum EXCEPT ![p] = resto]
       ELSE UNCHANGED quantum

(* Mutant: the process killed in the CPU is just left. *)
PlanMatadoSinExit ==
    LET p == actual[Plan] IN
    /\ EnLugar(Plan, "actualiza")
    /\ Libre(mx_PCB, p)
    /\ estado[p] # "EXEC"
    /\ CancelaReloj(p)
    /\ paquete' = SinPaquete
    /\ VuelveAEsperar(Plan)
    /\ UNCHANGED <<estado, retorno, vExit, mx_PCB, vNew, vReady, vProg, vPausa,
                   vRec, mx_recurso, vIface, vCpu, memoria, otro, vElim>>

(* actualizar_contexto for a process that was killed while in the CPU: the *)
(* packet, and a system call that may follow it, are not looked at.        *)
PlanMatado ==
    LET p == actual[Plan] IN
    /\ EnLugar(Plan, "actualiza")
    /\ Libre(mx_PCB, p)
    /\ estado[p] # "EXEC"
    /\ CancelaReloj(p)
    /\ EnviarAExit(p, "INTERRUPTED_BY_USER")
    /\ paquete' = SinPaquete
    /\ VuelveAEsperar(Plan)
    /\ UNCHANGED <<mx_PCB, vNew, vReady, vProg, vPausa, vRec, mx_recurso, vIface,
                   vCpu, memoria, otro, vElim>>

(* It is still EXEC: mx_PCB is kept from here to the end of the turn. *)
PlanActualiza ==
    LET p == actual[Plan] IN
    /\ EnLugar(Plan, "actualiza")
    /\ Libre(mx_PCB, p)
    /\ estado[p] = "EXEC"
    /\ CancelaReloj(p)
    /\ mx_PCB' = Tomado(mx_PCB, p)
    /\ Va(Plan, "procesa")
    /\ UNCHANGED <<estado, retorno, vNew, vReady, vExit, vProg, vPausa, vRec,
                   mx_recurso, vIface, vCpu, memoria, actual, otro, vElim, paquete>>

-----------------------------------------------------------------------------
(* check_pause and the checks of actualizar_contexto on the packet. *)
EsDevolucion == paquete.op = "DEVOLUCION_PCB" /\ paquete.pid = actual[Plan]

PlanProcesa ==
    /\ EnLugar(Plan, "procesa")
    /\ SinPausa
    /\ UNCHANGED <<vNew, vProg, vPausa, de_cpu, memoria, actual, vElim, paquete>>

(* "Devolucion de CPU invalida" (1), (2) and (3). *)
PlanInvalida ==
    /\ PlanProcesa
    /\ EsDevolucion =>
         paquete.motivo \notin {"INTERRUPT", "CPU_IO", "END", "OUT_OF_MEMORY"}
    /\ PlanEnviarAExit("ERROR")

PlanTermina ==
    /\ PlanProcesa
    /\ EsDevolucion
    /\ \/ paquete.motivo = "END" /\ PlanEnviarAExit("SUCCESS")
       \/ paquete.motivo = "OUT_OF_MEMORY" /\ PlanEnviarAExit("OUT_OF_MEMORY")

PlanSinCambio(lugar) ==
    /\ Va(Plan, lugar)
    /\ UNCHANGED <<vPCB, vReady, vExit, a_cpu, irq, reloj, vIface, vRec,
                   mx_recurso, mx_PCB, otro>>

PlanInterrumpido ==
    /\ PlanProcesa
    /\ EsDevolucion
    /\ paquete.motivo = "INTERRUPT"
    /\ PlanSinCambio("cierre")

PlanPideSyscall ==
    /\ PlanProcesa
    /\ EsDevolucion
    /\ paquete.motivo = "CPU_IO"
    /\ PlanSinCambio("syscall")

(* atender_syscall: the second packet, and buscar_recurso. *)
PlanLeeSyscall ==
    LET m == Head(de_cpu)
        conRecurso == m.op \in OpsRecurso
    IN
    /\ EnLugar(Plan, "syscall")
    /\ de_cpu # <<>>
    /\ paquete' = m
    /\ de_cpu' = Tail(de_cpu)
    /\ \/ conRecurso /\ m.arg \in Recursos /\ PlanSinCambio(m.op)
       \/ conRecurso /\ m.arg \notin Recursos /\ PlanEnviarAExit("INVALID_RESOURCE")
       \/ ~conRecurso /\ PlanSinCambio("IO")
    /\ UNCHANGED <<vNew, vProg, vPausa, memoria, actual, vElim>>

-----------------------------------------------------------------------------

(* Mutant: the process is queued but goes on running. *)
PlanWaitSinBloquear ==
    /\ EnLugar(Plan, "WAIT")
    /\ Libre(mx_recurso, paquete.arg)
    /\ R!AsignarRecurso(actual[Plan], paquete.arg)
    /\ Va(Plan, "cierre")
    /\ UNCHANGED <<vPCB, mx_PCB, vNew, vReady, vExit, vProg, vPausa, mx_recurso,
                   vIface, vCpu, memoria, actual, otro, vElim, vPlan>>

(* case WAIT *)
PlanWait ==
    LET p == actual[Plan]
        r == paquete.arg
    IN
    /\ EnLugar(Plan, "WAIT")
    /\ Libre(mx_recurso, r)
    /\ R!AsignarRecurso(p, r)
    /\ IF R!Agotado(r) THEN CambioEstado(p, "BLOCKED") ELSE UNCHANGED estado
    /\ Va(Plan, "cierre")
    /\ UNCHANGED <<quantum, retorno, mx_PCB, vNew, vReady, vExit, vProg, vPausa,
                   mx_recurso, vIface, vCpu, memoria, actual, otro, vElim, vPlan>>

(* case SIGNAL; while it wakes the head of the queue it keeps mx_recurso. *)
PlanSignal ==
    LET p == actual[Plan]
        r == paquete.arg
    IN
    /\ EnLugar(Plan, "SIGNAL")
    /\ Libre(mx_recurso, r)
    /\ R!DesasignarRecurso(p, r)
    /\ IF R!DespiertaOtro(p, r)
       THEN /\ otro' = [otro EXCEPT ![Plan] = Head(cola_rec[r])]
            /\ mx_recurso' = Tomado(mx_recurso, r)
            /\ Va(Plan, "despierta")
       ELSE /\ Va(Plan, "cierre")
            /\ UNCHANGED <<otro, mx_recurso>>
    /\ UNCHANGED <<vPCB, mx_PCB, vNew, vReady, vExit, vProg, vPausa, vIface,
                   vCpu, memoria, actual, vElim, vPlan>>

PlanDespierta ==
    /\ EnLugar(Plan, "despierta")
    /\ Libre(mx_PCB, otro[Plan])
    /\ Desbloquear(otro[Plan])
    /\ otro' = [otro EXCEPT ![Plan] = Nadie]
    /\ mx_recurso' = Soltado(mx_recurso, paquete.arg)
    /\ Va(Plan, "cierre")
    /\ UNCHANGED <<retorno, mx_PCB, vNew, vExit, vProg, vPausa, vRec, vIface,
                   vCpu, memoria, actual, vElim, vPlan>>

(* default: an I/O operation.  buscar_interface waits for the mx_interface *)
(* of the interface it returns.                                            *)
Listada(i) == i \in Ifaces /\ en_lista[i]

PlanInterfazInvalida ==
    LET i == paquete.arg IN
    /\ EnLugar(Plan, "IO")
    /\ Listada(i) => /\ Libre(mx_interface, i)
                     /\ conectada[i] => paquete.op # "IO"
    /\ PlanEnviarAExit("INVALID_INTERFACE")
    /\ UNCHANGED <<vNew, vProg, vPausa, de_cpu, memoria, actual, vElim, paquete>>

(* Mutant: without the test that the interface is still connected. *)
PlanBloqueaIOSinMirar ==
    LET p == actual[Plan]
        i == paquete.arg
    IN
    /\ EnLugar(Plan, "IO")
    /\ paquete.op = "IO"
    /\ Listada(i) /\ Libre(mx_interface, i)
    /\ CambioEstado(p, "BLOCKED")
    /\ cola_io' = [cola_io EXCEPT ![i] = Append(@, p)]
    /\ sem_cola_io' = [sem_cola_io EXCEPT ![i] = @ + 1]
    /\ Va(Plan, "cierre")
    /\ UNCHANGED <<quantum, retorno, mx_PCB, vNew, vReady, vExit, vProg, vPausa,
                   vRec, mx_recurso, en_lista, conectada, mx_interface, vCpu,
                   memoria, actual, otro, vElim, vPlan>>

PlanBloqueaIO ==
    LET p == actual[Plan]
        i == paquete.arg
    IN
    /\ EnLugar(Plan, "IO")
    /\ paquete.op = "IO"
    /\ Listada(i) /\ conectada[i] /\ Libre(mx_interface, i)
    /\ CambioEstado(p, "BLOCKED")
    /\ cola_io' = [cola_io EXCEPT ![i] = Append(@, p)]
    /\ sem_cola_io' = [sem_cola_io EXCEPT ![i] = @ + 1]
    /\ Va(Plan, "cierre")
    /\ UNCHANGED <<quantum, retorno, mx_PCB, vNew, vReady, vExit, vProg, vPausa,
                   vRec, mx_recurso, en_lista, conectada, mx_interface, vCpu,
                   memoria, actual, otro, vElim, vPlan>>

-----------------------------------------------------------------------------

(* Mutant: the preempted process is not put back in cola_ready. *)
PlanDesalojaSinCola ==
    LET p == actual[Plan] IN
    /\ EnLugar(Plan, "cierre")
    /\ estado[p] = "EXEC"
    /\ quantum[p] = 0
    /\ CambioEstado(p, "READY")
    /\ quantum' = [quantum EXCEPT ![p] = QUANTUM]
    /\ mx_PCB' = Soltado(mx_PCB, p)
    /\ paquete' = SinPaquete
    /\ VuelveAEsperar(Plan)
    /\ UNCHANGED <<retorno, vNew, vReady, vExit, vProg, vPausa, vRec, mx_recurso,
                   vIface, vCpu, memoria, otro, vElim, reloj>>

(* End of actualizar_contexto with the quantum used up: back to READY. *)
PlanDesaloja ==
    LET p == actual[Plan] IN
    /\ EnLugar(Plan, "cierre")
    /\ estado[p] = "EXEC"
    /\ quantum[p] = 0
    /\ CambioEstado(p, "READY")
    /\ quantum' = [quantum EXCEPT ![p] = QUANTUM]
    /\ PushReady(p)
    /\ mx_PCB' = Soltado(mx_PCB, p)
    /\ paquete' = SinPaquete
    /\ VuelveAEsperar(Plan)
    /\ UNCHANGED <<retorno, vNew, vExit, vProg, vPausa, vRec, mx_recurso, vIface,
                   vCpu, memoria, otro, vElim, reloj>>

(* Mutant: while(estado != BLOCKED) for while(estado == EXEC). *)
PlanRedespachaMuertos ==
    LET p == actual[Plan] IN
    /\ EnLugar(Plan, "cierre")
    /\ estado[p] # "BLOCKED"
    /\ quantum[p] # 0
    /\ EjecutarProceso(p)
    /\ mx_PCB' = Soltado(mx_PCB, p)
    /\ paquete' = SinPaquete
    /\ Va(Plan, "recibe")
    /\ UNCHANGED <<quantum, retorno, vNew, vReady, vExit, vProg, vPausa, vRec,
                   mx_recurso, vIface, de_cpu, irq, memoria, actual, otro, vElim>>

(* Still EXEC with quantum left: the do-while sends it to the CPU again. *)
PlanRedespacha ==
    LET p == actual[Plan] IN
    /\ EnLugar(Plan, "cierre")
    /\ estado[p] = "EXEC"
    /\ quantum[p] # 0
    /\ EjecutarProceso(p)
    /\ mx_PCB' = Soltado(mx_PCB, p)
    /\ paquete' = SinPaquete
    /\ Va(Plan, "recibe")
    /\ UNCHANGED <<quantum, retorno, vNew, vReady, vExit, vProg, vPausa, vRec,
                   mx_recurso, vIface, de_cpu, irq, memoria, actual, otro, vElim>>

(* Mutant: the planificador waits for the CPU once more. *)
PlanSueltaSigue ==
    LET p == actual[Plan] IN
    /\ EnLugar(Plan, "cierre")
    /\ estado[p] # "EXEC"
    /\ mx_PCB' = Soltado(mx_PCB, p)
    /\ paquete' = SinPaquete
    /\ Va(Plan, "recibe")
    /\ UNCHANGED <<vPCB, vNew, vReady, vExit, vProg, vPausa, vRec, mx_recurso,
                   vIface, vCpu, memoria, actual, otro, vElim, reloj>>

(* BLOCKED or EXIT: the planificador is done with it. *)
PlanSuelta ==
    LET p == actual[Plan] IN
    /\ EnLugar(Plan, "cierre")
    /\ estado[p] # "EXEC"
    /\ mx_PCB' = Soltado(mx_PCB, p)
    /\ paquete' = SinPaquete
    /\ VuelveAEsperar(Plan)
    /\ UNCHANGED <<vPCB, vNew, vReady, vExit, vProg, vPausa, vRec, mx_recurso,
                   vIface, vCpu, memoria, otro, vElim, reloj>>

PlanNext == \/ PlanToma \/ PlanPasaPausa \/ PlanDescarta \/ PlanDespacha
            \/ PlanRecibe \/ PlanMatado \/ PlanActualiza
            \/ PlanInvalida \/ PlanTermina \/ PlanInterrumpido \/ PlanPideSyscall
            \/ PlanLeeSyscall \/ PlanWait \/ PlanSignal \/ PlanDespierta
            \/ PlanInterfazInvalida \/ PlanBloqueaIO
            \/ PlanDesaloja \/ PlanRedespacha \/ PlanSuelta

-----------------------------------------------------------------------------
(* iniciar_quantum: the sleep is over; the quantum is set to 0 and the CPU *)
(* gets an INTERRUPCION, without any mutex.                                *)
VenceQuantum ==
    /\ reloj # Nadie
    /\ quantum' = [quantum EXCEPT ![reloj] = 0]
    /\ irq' = irq + 1
    /\ reloj' = Nadie
    /\ UNCHANGED <<estado, retorno, mx_PCB, vNew, vReady, vExit, vProg, vPausa,
                   vRec, mx_recurso, vIface, a_cpu, de_cpu, memoria, pc, actual,
                   otro, vElim, paquete>>

=============================================================================
