------------------------------- MODULE MCWire -------------------------------
(* Two messages of two threads; a field holds a character that has to be encoded
   between white space to condense, or nothing at all. *)
EXTENDS Wire

MCNames == {"AC_Req", "Positive", "Wind_Level", "Temp_Submit", "Time", "Client_No", "Temp",
            "Login", "Name", "Password", "Login_ACK", "Succeed", "Mode", "Fare_Info", "Fare",
            "Energy", "Heater", "Temp_Submit_Freq", "Wind", "Level", "Start_Blowing", "ID",
            "User", "Set_Temp", "Reg", "Client_NO", "Sensor_Temp", "Sensor_temp"}

MCValues == {<<" ", "x", " ", " ", "&">>, <<>>}
=============================================================================
