------------------------------ MODULE MCWebDemo ------------------------------
(* WebDemo for TLC: a chip that is always on with the one whose reading    *)
(* ignores its flag, the one that takes an error for a value, one with two *)
(* readings, and the others.                                               *)
EXTENDS WebDemo

TestBoards == {{"batmon", "opt"}, {"tmp"}, {"bmp"}, {"mpu"}, {"hdc"}, {"adc"}}
TestReadings == {"batmon_volt", "opt", "tmp_obj", "bmp_pres", "bmp_temp",
                 "mpu_acc_x", "hdc_hum", "adc_dio23"}
===============================================================================
