------------------------------ MODULE MCKernel ------------------------------
(* The kernel for TLC. *)
EXTENDS KernelPropiedades, TLC

Simetria == Permutations(PID)

UnaInstancia == <<1>>
NingunaInstancia == <<0>>
SinRecursos == <<>>

SoloCrear == {"INICIAR_PROCESO"}
CrearYMatar == {"INICIAR_PROCESO", "FINALIZAR_PROCESO"}
Todos == {"INICIAR_PROCESO", "FINALIZAR_PROCESO", "MULTIPROGRAMACION",
          "DETENER_PLANIFICACION"}

SoloCpu == {"NORMAL", "EXIT"}
ConRecursos == {"NORMAL", "WAIT", "SIGNAL", "EXIT"}
ConIO == {"NORMAL", "IO", "EXIT"}
ConWaitIO == {"WAIT", "IO", "EXIT"}
ConWait == {"WAIT", "EXIT"}
Variadas == {"NORMAL", "WAIT", "SIGNAL", "IO", "IO_NO_ADMITIDA",
             "RECURSO_AJENO", "EXIT", "SIN_MEMORIA", "FIN"}

=============================================================================
