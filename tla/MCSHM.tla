-------------------------------- MODULE MCSHM --------------------------------
EXTENDS SHM
AllReaders == {Readers}
AllOrNone == {{}, Readers}
==============================================================================
