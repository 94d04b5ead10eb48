---------------------------- MODULE MCSimulation ----------------------------
EXTENDS Simulation
AllPrograms == Dumbbell \cup Fifth \cup FifthScratch \cup TcpVariants \cup TcpBulkSend
                  \cup TcpBulkSendScratch \cup BulkSend \cup Star \cup OnOff
=============================================================================
